---------------------------- MODULE Spec2Model ----------------------------
(***************************************************************************)
(* A model of the timsTOF raw-data readers of this repository: the scan    *)
(* locators, the window-key quantizers, the per-frame processors and the   *)
(* aggregation strategies (sequential merge, ordered channel, plain        *)
(* channel, concurrent map, streaming lock).                               *)
(*                                                                         *)
(* Conventions.  Rust indices are 0-based and TLA+ sequences are 1-based:  *)
(* element i of a Rust slice s is s[i+1] here.  A peak table (TimsTOFData) *)
(* is a sequence of rows; a row is <<frame, scan, peak>>, where peak is    *)
(* the position of the peak in its frame.  The six columns of the source   *)
(* are functions of that triple: rt and frame_index of frame, mobility and *)
(* scan_index of scan, mz and intensity of (frame, peak).                  *)
(***************************************************************************)
EXTENDS Integers, Sequences, FiniteSets, TLC

VARIABLES
    binary_search_impl,  \* which slice::binary_search the toolchain links
    scan_offsets_in,     \* locator harness: the offsets table
    index_in,            \* locator harness: the peak position
    scan_linear,         \* result of find_scan_for_index, -1 before the call
    scan_binary,         \* result of find_scan_for_index_binary, -1 before
    q_in,                \* quantizer harness: the f32 product x * 10_000.0
    q_round,             \* result of the round()-based quantize, -1 before
    q_unchecked,         \* result of the to_int_unchecked quantize, -1 before
    frames,              \* the frame source: frame index -> frame
    pc,                  \* where the calling function (main thread) is
    splits,              \* original: per-frame FrameSplit, <<>> until mapped
    worker,              \* per frame index: the state of its rayon task
    channel,             \* the bounded channel's queue of ProcessedFrame
    frame_buffer,        \* v5_fixed aggregator: frame_buffer (Option as 0/1 seq)
    next_frame,          \* v5_fixed aggregator: next_frame
    aggregator,          \* the aggregator thread: "running" or "exited"
    ms1_accumulator,     \* Vec<TimsTOFData> behind the mutex
    ms2_map,             \* key -> table (DashMap / HashMap)
    data_original,       \* result of read_timstof_data_original, <<>> before
    data_v5,             \* result of read_timstof_data_v5_fixed, <<>> before
    verdict,             \* <<ms1_match, ms2_match>> of the comparison, <<>> before
    variant,             \* the reader under way: "V2", "V4", "V1" or "original"
    win_pos,             \* per frame index: windows its task has processed
    ms1_chunks,          \* V2: DashMap frame index -> MS1 table
    global_ms1,          \* V4: the MS1 table behind the RwLock
    raw_data,            \* the TimsTOFRawData returned, <<>> before
    merge_strategy,      \* merge harness: "original" or "lockfree"
    merge_pos,           \* merge harness: contributions merged so far
    merge_last,          \* merge harness: the contribution merged last (Option)
    merge_before,        \* merge harness: the result before the last merge
    iso_mz,              \* frame harness: isolation_mz[0], in 64ths
    iso_width,           \* frame harness: isolation_width[0], in 64ths
    processed,           \* frame harness: the frame processor's output (Option)
    search_left,         \* hand-written binary search: left
    search_right,        \* hand-written binary search: right
    reads,               \* hand-written binary search: the indices read so far
    peak_i,              \* batching reader: i, the next peak to put in a batch
    ms1_table,           \* batching reader: the frame's MS1 table
    received,            \* version2 aggregator: the message received and not yet
                         \* merged (Option)
    ms1_lock,            \* V4 columns: the tasks that hold the write guard of ms1_lock
    columns,             \* V4 columns: the six columns of the shared MS1 table
    extend_pos,          \* V4 columns: per task, the columns extend_from has extended
    lock_count,          \* V4: per task, the lock acquisitions it has made
    chunk_size,          \* V3/V5: the chunk size handed to par_chunks, 0 before
    chunk_list,          \* V3/V5: the chunks par_chunks yields
    chunk_results,       \* V3/V5: the folded chunks collected so far
    scan_filter,         \* version4 process_peaks_unchecked: the scan filter (Option)
    out_idx              \* version4 process_peaks_unchecked: the next output slot

locVars   == <<scan_offsets_in, index_in, scan_linear, scan_binary>>
quantVars == <<q_in, q_round, q_unchecked>>
sharedVars == <<variant, win_pos, ms1_chunks, global_ms1, raw_data>>
searchVars == <<search_left, search_right, reads>>
batchVars == <<peak_i, ms1_table>>
chunkVars == <<chunk_size, chunk_list, chunk_results>>
uncheckedVars == <<scan_filter, out_idx>>
extraVars == <<received, ms1_lock, columns, extend_pos, lock_count, chunkVars,
               uncheckedVars>>
harnessVars == <<merge_strategy, merge_pos, merge_last, merge_before,
                 iso_mz, iso_width, processed, searchVars, batchVars, extraVars>>
mergeVars == <<merge_strategy, merge_pos, merge_last, merge_before>>
pipeVars  == <<frames, pc, splits, worker, channel, frame_buffer, next_frame,
               aggregator, ms1_accumulator, ms2_map, data_original, data_v5,
               verdict, sharedVars>>

(***************************************************************************)
(* Bounds of the model.                                                    *)
(***************************************************************************)
MaxScans == 4       \* an offsets table has at most MaxScans + 1 entries
MaxPeaks == 2       \* a frame has at most MaxPeaks peaks
MaxProduct == 12    \* the f32 product x * 10_000.0 is at most MaxProduct
NFrames == 3        \* the frame source holds NFrames frames
NumThreads == 2     \* threads of the rayon pool (32 in the source)
ChannelCapacity == 1  \* capacity of the bounded channel (1000, 2000 in the source)
MaxIsoMz == 4       \* a drawn isolation center is at most MaxIsoMz / 64
BATCH_SIZE == 2      \* peaks of one batch (8 in the source)
MaxBatchPeaks == 5   \* a frame of the batching reader has at most MaxBatchPeaks peaks
MaxBatchScans == 3   \* and at most MaxBatchScans scans
MaxWindows == 3      \* a drawn MS2 frame has at most MaxWindows isolation centers
PARALLEL_THREADS == 2  \* threads the chunk sizes are computed for (32 in the source)
MaxChunkFrames == 17   \* the chunked readers are given at most MaxChunkFrames frames
MaxSizingFrames == 4   \* the readers that size their work are given at most MaxSizingFrames frames
MaxNumaNodes == 2      \* get_numa_nodes() returns 1..MaxNumaNodes
MaxIntensities == 3    \* a drawn frame has at most MaxIntensities intensities

(* f32 values are dyadic rationals; the product x * 10_000.0 is kept as a  *)
(* numerator over QDen (quarters), which is exact for every f32 below 2^21.*)
QDen == 4

Last(s) == s[Len(s)]

(***************************************************************************)
(* Scan locators.                                                          *)
(***************************************************************************)

(* scan_offsets.windows(2).enumerate(): window `scan` is the pair          *)
(* (scan_offsets[scan], scan_offsets[scan + 1]).                           *)
RECURSIVE LinearFrom(_, _, _)
LinearFrom(index, scan_offsets, scan) ==
    IF scan + 2 > Len(scan_offsets)
    THEN Len(scan_offsets) - 1
    ELSE IF index >= scan_offsets[scan + 1] /\ index < scan_offsets[scan + 2]
         THEN scan
         ELSE LinearFrom(index, scan_offsets, scan + 1)

(* Mutation of the linear locator: the lower end of the window is tested   *)
(* with > instead of >=.                                                   *)
RECURSIVE LinearFromStrict(_, _, _)
LinearFromStrict(index, scan_offsets, scan) ==
    IF scan + 2 > Len(scan_offsets)
    THEN Len(scan_offsets) - 1
    ELSE IF index > scan_offsets[scan + 1] /\ index < scan_offsets[scan + 2]
         THEN scan
         ELSE LinearFromStrict(index, scan_offsets, scan + 1)

find_scan_for_index_strict(index, scan_offsets) ==
    LinearFromStrict(index, scan_offsets, 0)

find_scan_for_index(index, scan_offsets) ==
    LinearFrom(index, scan_offsets, 0)

(* slice::binary_search.  Its contract leaves the result open when several *)
(* elements equal the target ("any one of the matches could be returned"), *)
(* and the two algorithms the standard library has shipped differ there.   *)
(* A result is [ok, pos]: Ok(pos) or Err(pos).                             *)
BinarySearchImpls == {"early_return", "branchless"}

(* The loop that returns at the first probe equal to the target.           *)
RECURSIVE BinarySearchEarlyReturn(_, _, _, _)
BinarySearchEarlyReturn(s, x, left, right) ==
    IF left >= right
    THEN [ok |-> FALSE, pos |-> left]
    ELSE LET mid == left + ((right - left) \div 2)
         IN  IF s[mid + 1] < x THEN BinarySearchEarlyReturn(s, x, mid + 1, right)
             ELSE IF s[mid + 1] > x THEN BinarySearchEarlyReturn(s, x, left, mid)
             ELSE [ok |-> TRUE, pos |-> mid]

(* The branchless loop, which keeps the last probe not above the target.   *)
RECURSIVE BinarySearchBranchless(_, _, _, _)
BinarySearchBranchless(s, x, base, size) ==
    IF size > 1
    THEN LET half == size \div 2
             mid  == base + half
         IN  BinarySearchBranchless(s, x, IF s[mid + 1] > x THEN base ELSE mid,
                                    size - half)
    ELSE IF s[base + 1] = x
         THEN [ok |-> TRUE, pos |-> base]
         ELSE [ok |-> FALSE, pos |-> base + (IF s[base + 1] < x THEN 1 ELSE 0)]

binary_search(impl, s, x) ==
    IF Len(s) = 0 THEN [ok |-> FALSE, pos |-> 0]
    ELSE IF impl = "early_return"
         THEN BinarySearchEarlyReturn(s, x, 0, Len(s))
         ELSE BinarySearchBranchless(s, x, 0, Len(s))

(* Ok(pos) => pos, Err(pos) => pos.saturating_sub(1)                       *)
find_scan_for_index_binary(impl, index, scan_offsets) ==
    LET r == binary_search(impl, scan_offsets, index)
    IN  IF r.ok THEN r.pos
        ELSE IF r.pos = 0 THEN 0 ELSE r.pos - 1

(***************************************************************************)
(* Quantizers.  Both start from the same f32 product p = x * 10_000.0,     *)
(* here the numerator n of p = n / QDen.                                   *)
(***************************************************************************)

(* f32::round: to the nearest integer, ties away from zero; `as u32` is    *)
(* the identity on the non-negative values below 2^32.                     *)
quantize(n) == (2 * n + QDen) \div (2 * QDen)

(* f32::to_int_unchecked::<u32>: the fractional part is dropped.           *)
quantize_unchecked(n) == n \div QDen

(***************************************************************************)
(* The offsets tables a frame can carry: non-decreasing, starting at 0     *)
(* (the first scan starts at the first peak), with at least 2 entries.     *)
(***************************************************************************)
IsOffsetsTable(s) ==
    /\ Len(s) >= 2
    /\ s[1] = 0
    /\ \A i \in 1..(Len(s) - 1) : s[i] <= s[i + 1]

OffsetsTables ==
    UNION { { s \in [1..len -> 0..MaxPeaks] : IsOffsetsTable(s) }
            : len \in 2..(MaxScans + 1) }

(***************************************************************************)
(* Harness of the scan locators: an offsets table and a position are       *)
(* drawn, then each locator is called once on them.                        *)
(***************************************************************************)
LocIdle ==
    /\ scan_offsets_in = <<0, 0>>
    /\ index_in = 0
    /\ scan_linear = -1
    /\ scan_binary = -1

QuantIdle ==
    /\ q_in = 0
    /\ q_round = -1
    /\ q_unchecked = -1

SharedIdle ==
    /\ variant = "none"
    /\ win_pos = <<>>
    /\ ms1_chunks = <<>>
    /\ global_ms1 = <<>>
    /\ raw_data = <<>>

MergeIdle ==
    /\ merge_strategy = "none"
    /\ merge_pos = 0
    /\ merge_last = <<>>
    /\ merge_before = <<>>

FrameIdle ==
    /\ iso_mz = 0
    /\ iso_width = 0
    /\ processed = <<>>

SearchIdle ==
    /\ search_left = 0
    /\ search_right = 0
    /\ reads = <<>>

BatchIdle ==
    /\ peak_i = 0
    /\ ms1_table = <<>>

ChunkIdle ==
    /\ chunk_size = 0
    /\ chunk_list = <<>>
    /\ chunk_results = <<>>

UncheckedIdle ==
    /\ scan_filter = <<>>
    /\ out_idx = 0

ExtraIdle ==
    /\ received = <<>>
    /\ ms1_lock = {}
    /\ columns = <<>>
    /\ extend_pos = <<>>
    /\ lock_count = <<>>
    /\ ChunkIdle
    /\ UncheckedIdle

HarnessIdle ==
    /\ MergeIdle
    /\ FrameIdle
    /\ SearchIdle
    /\ BatchIdle
    /\ ExtraIdle

PipeIdle ==
    /\ SharedIdle
    /\ HarnessIdle
    /\ frames = <<>>
    /\ pc = "idle"
    /\ splits = <<>>
    /\ worker = <<>>
    /\ channel = <<>>
    /\ frame_buffer = <<>>
    /\ next_frame = 0
    /\ aggregator = "idle"
    /\ ms1_accumulator = <<>>
    /\ ms2_map = <<>>
    /\ data_original = <<>>
    /\ data_v5 = <<>>
    /\ verdict = <<>>

LocInit ==
    /\ binary_search_impl \in BinarySearchImpls
    /\ scan_offsets_in \in OffsetsTables
    /\ index_in \in 0..MaxPeaks
    /\ scan_linear = -1
    /\ scan_binary = -1
    /\ QuantIdle
    /\ PipeIdle

CallLinear ==
    /\ scan_linear = -1
    /\ scan_linear' = find_scan_for_index(index_in, scan_offsets_in)
    /\ UNCHANGED <<binary_search_impl, harnessVars,
                   scan_offsets_in, index_in, scan_binary,
                   quantVars, pipeVars>>

CallBinary ==
    /\ scan_binary = -1
    /\ scan_binary' =
           find_scan_for_index_binary(binary_search_impl, index_in, scan_offsets_in)
    /\ UNCHANGED <<binary_search_impl, harnessVars,
                   scan_offsets_in, index_in, scan_linear,
                   quantVars, pipeVars>>

LocNext == CallLinear \/ CallBinary

vars == <<binary_search_impl, locVars, quantVars, pipeVars, harnessVars>>

SpecLoc == LocInit /\ [][LocNext]_vars

(* A valid call: the position is below the peak count (the final offset).  *)
ValidPosition == index_in < Last(scan_offsets_in)

(***************************************************************************)
(* Harness of the quantizers: a product is drawn, then each quantizer is   *)
(* called once on it.                                                      *)
(***************************************************************************)
QuantInit ==
    /\ binary_search_impl = "branchless"
    /\ LocIdle
    /\ PipeIdle
    /\ q_in \in 0..(MaxProduct * QDen)
    /\ q_round = -1
    /\ q_unchecked = -1

CallQuantize ==
    /\ q_round = -1
    /\ q_round' = quantize(q_in)
    /\ UNCHANGED <<binary_search_impl, harnessVars,
                   locVars, q_in, q_unchecked, pipeVars>>

CallQuantizeUnchecked ==
    /\ q_unchecked = -1
    /\ q_unchecked' = quantize_unchecked(q_in)
    /\ UNCHANGED <<binary_search_impl, harnessVars,
                   locVars, q_in, q_round, pipeVars>>

QuantNext == CallQuantize \/ CallQuantizeUnchecked

SpecQuant == QuantInit /\ [][QuantNext]_vars


(***************************************************************************)
(* Claims about the scan locators (checked under SpecLoc).                 *)
(***************************************************************************)

(* C6: for every offsets table (repeated offsets included) and every       *)
(* position below the final offset, find_scan_for_index_binary returns the *)
(* same scan as the linear find_scan_for_index.                            *)
C6_BinaryEqualsLinear ==
    (ValidPosition /\ scan_linear # -1 /\ scan_binary # -1)
        => scan_binary = scan_linear

(* Scan s contains position i: offsets[s] <= i < offsets[s+1].             *)
ScanContains(scan_offsets, s, i) ==
    scan_offsets[s + 1] <= i /\ i < scan_offsets[s + 2]

(* C7: for every offsets table whose final entry is the peak count and     *)
(* every position below it, find_scan_for_index returns the unique scan s  *)
(* with offsets[s] <= position < offsets[s+1].                             *)
C7_LinearFindsContainingScan ==
    (ValidPosition /\ scan_linear # -1)
        => /\ scan_linear \in 0..(Len(scan_offsets_in) - 2)
           /\ ScanContains(scan_offsets_in, scan_linear, index_in)
           /\ \A s \in 0..(Len(scan_offsets_in) - 2) :
                  ScanContains(scan_offsets_in, s, index_in) => s = scan_linear

(* The linear locator has answered for a peak that lies behind an empty    *)
(* scan (a repeated offset).                                               *)
C7_Witness ==
    /\ ValidPosition
    /\ scan_linear >= 2
    /\ \E s \in 0..(scan_linear - 1) :
           scan_offsets_in[s + 1] = scan_offsets_in[s + 2]

(***************************************************************************)
(* Claims about the quantizers (checked under SpecQuant).                  *)
(***************************************************************************)

(* k is the integer nearest to n / QDen, ties away from zero.              *)
IsNearestTiesAway(k, n) ==
    2 * QDen * k - QDen <= 2 * n /\ 2 * n < 2 * QDen * k + QDen

(* C8: every quantize implementation maps a non-negative boundary to the   *)
(* integer nearest to x * 10000, ties away from zero, so the round()-based *)
(* and the to_int_unchecked-based variants give the same key.              *)
C8_QuantizersAgree ==
    (q_round # -1 /\ q_unchecked # -1)
        => /\ IsNearestTiesAway(q_round, q_in)
           /\ IsNearestTiesAway(q_unchecked, q_in)
           /\ q_unchecked = q_round


(***************************************************************************)
(* Frames.  A frame carries its MS level, whether frames.get(idx) returns  *)
(* it, its scan offsets (the peak count is the final offset: tof_indices   *)
(* and intensities have that length) and its quadrupole settings: per      *)
(* window the f32 products of the two boundaries (numerators over QDen)    *)
(* and the inclusive scan range, with n_width = isolation_width.len().     *)
(***************************************************************************)
Window(low, high, scan_start, scan_end) ==
    [low |-> low, high |-> high, scan_start |-> scan_start, scan_end |-> scan_end]

Frame(level, readable, scan_offsets, windows, n_width) ==
    [ms_level |-> level, readable |-> readable, scan_offsets |-> scan_offsets,
     windows |-> windows, n_width |-> n_width]

(* The shapes a frame of the model takes: an MS1 frame with one peak       *)
(* behind three empty scans, an MS1 frame without peaks, an MS2 frame with *)
(* one window over the only non-empty scan, an MS2 frame with a window of  *)
(* the same key computed from other floats, a window without peaks and a   *)
(* window without a width, a frame of unknown level, an unreadable frame.  *)
FrameShapes ==
    { Frame("MS1", TRUE, <<0, 0, 0, 0, 1>>, <<>>, 0),
      Frame("MS1", TRUE, <<0, 0>>, <<>>, 0),
      Frame("MS2", TRUE, <<0, 0, 0, 0, 1>>, <<Window(8, 16, 3, 3)>>, 1),
      Frame("MS2", TRUE, <<0, 2, 2>>,
            <<Window(9, 17, 0, 0), Window(24, 32, 1, 1), Window(40, 48, 0, 1)>>, 2),
      Frame("Unknown", TRUE, <<0, 1>>, <<>>, 0),
      Frame("MS1", FALSE, <<0, 1>>, <<>>, 0) }

FrameIndices == 0..(NFrames - 1)

(***************************************************************************)
(* The frame processor, with the scan locator as a parameter.              *)
(***************************************************************************)
n_peaks(frame) == Last(frame.scan_offsets)

(* The locator a reader calls: find_scan_for_index ("linear") or           *)
(* find_scan_for_index_binary ("binary").                                  *)
Locate(locator, index, scan_offsets) ==
    IF locator = "linear"
    THEN find_scan_for_index(index, scan_offsets)
    ELSE find_scan_for_index_binary(binary_search_impl, index, scan_offsets)

(* for (p_idx, (&tof, &intensity)) in tof_indices.iter().zip(intensities)  *)
(*     .enumerate(): one row per peak, in peak order.                      *)
PeakRows(idx, frame, locator) ==
    [p \in 1..n_peaks(frame) |->
        <<idx, Locate(locator, p - 1, frame.scan_offsets), p - 1>>]

(* A range test that takes scan_ends[win] as exclusive.                    *)
InScanRangeExclusive(row, win) ==
    ~(row[2] < win.scan_start \/ row[2] >= win.scan_end)

(* if scan < qs.scan_starts[win] || scan > qs.scan_ends[win] { continue; } *)
InScanRange(row, win) == ~(row[2] < win.scan_start \/ row[2] > win.scan_end)

WindowRows(idx, frame, win, locator) ==
    SelectSeq(PeakRows(idx, frame, locator), LAMBDA row : InScanRange(row, win))

(* key = (quantize(low), quantize(high))                                   *)
WindowKey(win) == <<quantize(win.low), quantize(win.high)>>

(* A window loop without the break at the first missing width.            *)
WindowsProcessedAll(frame) == Len(frame.windows)

(* for win in 0..isolation_mz.len() { if win >= isolation_width.len()      *)
(* { break; } ... }                                                        *)
WindowsProcessed(frame) ==
    IF Len(frame.windows) <= frame.n_width THEN Len(frame.windows)
    ELSE frame.n_width

(* Every processed window as a (key, table) pair: ms2_pairs.push((key,     *)
(* td)) without a test.                                                    *)
AllPairs(idx, frame, locator) ==
    [w \in 1..WindowsProcessed(frame) |->
        <<WindowKey(frame.windows[w]),
          WindowRows(idx, frame, frame.windows[w], locator)>>]

(* if !td.mz_values.is_empty() { ms2_pairs.push((key, td)); }              *)
NonEmptyPairs(idx, frame, locator) ==
    SelectSeq(AllPairs(idx, frame, locator), LAMBDA pair : pair[2] # <<>>)

(***************************************************************************)
(* Merging into a key -> table map.                                        *)
(***************************************************************************)
(* A merge that replaces the table of the key instead of extending it.     *)
MergeEntryOverwrite(map, key, td) == (key :> td) @@ map

(* map.entry(key).or_insert_with(TimsTOFData::new).merge_from(&mut td)     *)
MergeEntry(map, key, td) ==
    IF key \in DOMAIN map
    THEN [map EXCEPT ![key] = @ \o td]
    ELSE (key :> td) @@ map

RECURSIVE MergePairs(_, _)
MergePairs(map, pairs) ==
    IF pairs = <<>> THEN map
    ELSE MergePairs(MergeEntry(map, Head(pairs)[1], Head(pairs)[2]), Tail(pairs))

RECURSIVE Concat(_)
Concat(tables) ==
    IF tables = <<>> THEN <<>> ELSE Head(tables) \o Concat(Tail(tables))

(***************************************************************************)
(* The comparison program (compare_original_to_version5): main reads the   *)
(* data with read_timstof_data_original, then with                         *)
(* read_timstof_data_v5_fixed, then compares the two results.              *)
(***************************************************************************)

(* The closure of the original's parallel map for one readable frame.      *)
FrameSplit(idx) ==
    LET frame == frames[idx]
    IN  [ms1 |-> IF frame.ms_level = "MS1"
                 THEN PeakRows(idx, frame, "linear") ELSE <<>>,
         ms2 |-> IF frame.ms_level = "MS2"
                 THEN AllPairs(idx, frame, "linear") ELSE <<>>]

(* A merge turn that puts the split in the place of what was merged.       *)
MergeSplitReplace(acc, split) ==
    [ms1_data |-> split.ms1, ms2_windows |-> MergePairs(<<>>, split.ms2)]

(* One turn of for split in splits: global_ms1.extend(split.ms1); for      *)
(* (key, td) in split.ms2 { ms2_hash.entry(key).or_insert_with(new)        *)
(* .merge_from(td) }                                                       *)
MergeSplit(acc, split) ==
    [ms1_data    |-> acc.ms1_data \o split.ms1,
     ms2_windows |-> MergePairs(acc.ms2_windows, split.ms2)]

(* for split in splits { .. }                                              *)
RECURSIVE MergeSplits(_, _)
MergeSplits(acc, idx) ==
    IF idx >= NFrames THEN acc
    ELSE MergeSplits(MergeSplit(acc, splits[idx][1]), idx + 1)

EmptyData == [ms1_data |-> <<>>, ms2_windows |-> <<>>]

CompareInit ==
    /\ binary_search_impl = "branchless"
    /\ HarnessIdle
    /\ LocIdle
    /\ QuantIdle
    /\ SharedIdle
    /\ frames \in [FrameIndices -> FrameShapes]
    /\ pc = "original"
    /\ splits = [idx \in FrameIndices |-> <<>>]
    /\ worker = [idx \in FrameIndices |-> "todo"]
    /\ channel = <<>>
    /\ frame_buffer = [idx \in FrameIndices |-> <<>>]
    /\ next_frame = 0
    /\ aggregator = "idle"
    /\ ms1_accumulator = <<>>
    /\ ms2_map = <<>>
    /\ data_original = <<>>
    /\ data_v5 = <<>>
    /\ verdict = <<>>

(* One task of the original's (0..n_frames).into_par_iter().map(..).       *)
OriginalMapFrame(idx) ==
    /\ pc = "original"
    /\ splits[idx] = <<>>
    /\ frames[idx].readable
    /\ splits' = [splits EXCEPT ![idx] = <<FrameSplit(idx)>>]
    /\ UNCHANGED <<binary_search_impl, harnessVars,
                   locVars, quantVars, sharedVars,
                   frames, pc, worker,
                   channel, frame_buffer, next_frame, aggregator,
                   ms1_accumulator, ms2_map, data_original, data_v5, verdict>>

(* frames.get(idx).expect("frame read") on a frame that cannot be read:    *)
(* the task panics and the panic ends the program.                         *)
OriginalPanic(idx) ==
    /\ pc = "original"
    /\ splits[idx] = <<>>
    /\ ~frames[idx].readable
    /\ pc' = "panicked"
    /\ UNCHANGED <<binary_search_impl, harnessVars,
                   locVars, quantVars, sharedVars,
                   frames, splits,
                   worker, channel, frame_buffer, next_frame, aggregator,
                   ms1_accumulator, ms2_map, data_original, data_v5, verdict>>

(* collect(), the sequential merge loop and the return of the original;    *)
(* main goes on to read_timstof_data_v5_fixed, which spawns the aggregator *)
(* thread before it starts the workers.                                    *)
OriginalMerge ==
    /\ pc = "original"
    /\ \A idx \in FrameIndices : splits[idx] # <<>>
    /\ data_original' = <<MergeSplits(EmptyData, 0)>>
    /\ pc' = "v5_fixed"
    /\ aggregator' = "running"
    /\ UNCHANGED <<binary_search_impl, harnessVars,
                   locVars, quantVars, sharedVars,
                   frames, splits,
                   worker, channel, frame_buffer, next_frame,
                   ms1_accumulator, ms2_map, data_v5, verdict>>

(* What the v5_fixed worker closure sends for frame idx, as an Option:     *)
(* nothing for a frame that cannot be read (Err(_) => return), for an MS1  *)
(* frame without peaks, for an MS2 frame without a non-empty window and    *)
(* for any other level.                                                    *)
V5FixedOutput(idx) ==
    LET frame == frames[idx]
        ms1   == PeakRows(idx, frame, "linear")
        pairs == NonEmptyPairs(idx, frame, "linear")
    IN  IF ~frame.readable THEN <<>>
        ELSE IF frame.ms_level = "MS1" /\ ms1 # <<>>
             THEN <<[kind |-> "MS1", idx |-> idx, data |-> ms1, pairs |-> <<>>]>>
        ELSE IF frame.ms_level = "MS2" /\ pairs # <<>>
             THEN <<[kind |-> "MS2", idx |-> idx, data |-> <<>>, pairs |-> pairs]>>
        ELSE <<>>

InFlight == { idx \in DOMAIN worker : worker[idx] = "sending" }

(* A pool thread takes frame idx and runs the closure up to its send; a    *)
(* closure that sends nothing is finished.                                 *)
V5FixedProcessFrame(idx) ==
    /\ pc = "v5_fixed"
    /\ worker[idx] = "todo"
    /\ Cardinality(InFlight) < NumThreads
    /\ worker' = [worker EXCEPT ![idx] =
                     IF V5FixedOutput(idx) = <<>> THEN "done" ELSE "sending"]
    /\ UNCHANGED <<binary_search_impl, harnessVars,
                   locVars, quantVars, sharedVars,
                   frames, pc, splits,
                   channel, frame_buffer, next_frame, aggregator,
                   ms1_accumulator, ms2_map, data_original, data_v5, verdict>>

(* sender.send(..) on the bounded channel: blocks while the queue is full. *)
V5FixedSend(idx) ==
    /\ pc = "v5_fixed"
    /\ worker[idx] = "sending"
    /\ Len(channel) < ChannelCapacity
    /\ channel' = Append(channel, V5FixedOutput(idx)[1])
    /\ worker' = [worker EXCEPT ![idx] = "done"]
    /\ UNCHANGED <<binary_search_impl, harnessVars,
                   locVars, quantVars, sharedVars,
                   frames, pc, splits,
                   frame_buffer, next_frame, aggregator, ms1_accumulator,
                   ms2_map, data_original, data_v5, verdict>>

(* A drain that takes every buffered frame, whatever its index.           *)
RECURSIVE V5FixedDrainUnordered(_)
V5FixedDrainUnordered(st) ==
    IF \E i \in DOMAIN st.frame_buffer : st.frame_buffer[i] # <<>>
    THEN LET i == CHOOSE i \in DOMAIN st.frame_buffer : st.frame_buffer[i] # <<>>
             frame == st.frame_buffer[i][1]
         IN  V5FixedDrainUnordered(
                 [frame_buffer    |-> [st.frame_buffer EXCEPT ![i] = <<>>],
                  next_frame      |-> st.next_frame + 1,
                  ms1_accumulator |->
                      IF frame.kind = "MS1" /\ frame.data # <<>>
                      THEN Append(st.ms1_accumulator, frame.data)
                      ELSE st.ms1_accumulator,
                  ms2_map         |->
                      IF frame.kind = "MS2"
                      THEN MergePairs(st.ms2_map,
                               SelectSeq(frame.pairs, LAMBDA pair : pair[2] # <<>>))
                      ELSE st.ms2_map])
    ELSE st

(* while next_frame < n_frames { if let Some(frame) =                      *)
(* frame_buffer[next_frame].take() { merge; next_frame += 1 } else         *)
(* { break } }, on the aggregator's state st.                              *)
RECURSIVE V5FixedDrain(_)
V5FixedDrain(st) ==
    IF st.next_frame < NFrames /\ st.frame_buffer[st.next_frame] # <<>>
    THEN LET frame == st.frame_buffer[st.next_frame][1]
         IN  V5FixedDrain(
                 [frame_buffer    |-> [st.frame_buffer EXCEPT ![st.next_frame] = <<>>],
                  next_frame      |-> st.next_frame + 1,
                  ms1_accumulator |->
                      IF frame.kind = "MS1" /\ frame.data # <<>>
                      THEN Append(st.ms1_accumulator, frame.data)
                      ELSE st.ms1_accumulator,
                  ms2_map         |->
                      IF frame.kind = "MS2"
                      THEN MergePairs(st.ms2_map,
                               SelectSeq(frame.pairs, LAMBDA pair : pair[2] # <<>>))
                      ELSE st.ms2_map])
    ELSE st

(* One turn of while let Ok(frame_data) = receiver.recv(): the received    *)
(* frame goes to frame_buffer[idx], then the buffer is drained in order.   *)
V5FixedAggregate ==
    /\ aggregator = "running"
    /\ pc \in {"v5_fixed", "dropped"}
    /\ channel # <<>>
    /\ LET frame_data == Head(channel)
           st == V5FixedDrain(
                     [frame_buffer    |-> [frame_buffer EXCEPT
                                              ![frame_data.idx] = <<frame_data>>],
                      next_frame      |-> next_frame,
                      ms1_accumulator |-> ms1_accumulator,
                      ms2_map         |-> ms2_map])
       IN  /\ channel' = Tail(channel)
           /\ frame_buffer' = st.frame_buffer
           /\ next_frame' = st.next_frame
           /\ ms1_accumulator' = st.ms1_accumulator
           /\ ms2_map' = st.ms2_map
    /\ UNCHANGED <<binary_search_impl, harnessVars,
                   locVars, quantVars, sharedVars,
                   frames, pc, splits,
                   worker, aggregator, data_original, data_v5, verdict>>

(* for_each has returned (every closure has run): drop(sender).            *)
V5FixedDropSender ==
    /\ pc = "v5_fixed"
    /\ \A idx \in FrameIndices : worker[idx] = "done"
    /\ pc' = "dropped"
    /\ UNCHANGED <<binary_search_impl, harnessVars,
                   locVars, quantVars, sharedVars,
                   frames, splits,
                   worker, channel, frame_buffer, next_frame, aggregator,
                   ms1_accumulator, ms2_map, data_original, data_v5, verdict>>

(* receiver.recv() returns Err once the queue is empty and every sender    *)
(* is dropped: the aggregator's loop and thread end.                       *)
V5FixedAggregatorExit ==
    /\ aggregator = "running"
    /\ pc = "dropped"
    /\ channel = <<>>
    /\ aggregator' = "exited"
    /\ UNCHANGED <<binary_search_impl, harnessVars,
                   locVars, quantVars, sharedVars,
                   frames, pc, splits,
                   worker, channel, frame_buffer, next_frame, ms1_accumulator,
                   ms2_map, data_original, data_v5, verdict>>

(* aggregator_handle.join(), the concatenation of the MS1 chunks and the   *)
(* copy of the map into ms2_vec; the f32 pair of a key is a function of    *)
(* the key, so the windows are kept by key.                                *)
V5FixedFinalize ==
    /\ pc = "dropped"
    /\ aggregator = "exited"
    /\ data_v5' = <<[ms1_data |-> Concat(ms1_accumulator), ms2_windows |-> ms2_map]>>
    /\ pc' = "compare"
    /\ UNCHANGED <<binary_search_impl, harnessVars,
                   locVars, quantVars, sharedVars,
                   frames, splits,
                   worker, channel, frame_buffer, next_frame, aggregator,
                   ms1_accumulator, ms2_map, data_original, verdict>>

(* The sort key of compare_tims_data: (frame_indices[i], scan_indices[i],  *)
(* (mz_values[i] * 1e6) as i64).  Within a frame the m/z of a peak is a    *)
(* function of its TOF index, which ascends with the peak position inside  *)
(* a scan, so the key orders rows as <<frame, scan, peak>>.                *)
KeyLess(a, b) ==
    \/ a[1] < b[1]
    \/ a[1] = b[1] /\ a[2] < b[2]
    \/ a[1] = b[1] /\ a[2] = b[2] /\ a[3] < b[3]

(* sort_by_key is stable: x, which came first, goes before equal keys.     *)
RECURSIVE InsertSorted(_, _)
InsertSorted(x, sorted) ==
    IF sorted = <<>> THEN <<x>>
    ELSE IF KeyLess(Head(sorted), x)
         THEN <<Head(sorted)>> \o InsertSorted(x, Tail(sorted))
         ELSE <<x>> \o sorted

RECURSIVE SortRows(_)
SortRows(rows) ==
    IF rows = <<>> THEN <<>> ELSE InsertSorted(Head(rows), SortRows(Tail(rows)))

(* Equal lengths, then equal rows at every sorted index.                   *)
compare_tims_data(data1, data2) ==
    /\ Len(data1) = Len(data2)
    /\ SortRows(data1) = SortRows(data2)

(* Equal window counts, every key of either side present on the other,     *)
(* and equal tables under every key.                                       *)
compare_ms2_windows(windows1, windows2) ==
    /\ Cardinality(DOMAIN windows1) = Cardinality(DOMAIN windows2)
    /\ \A key \in DOMAIN windows1 :
           /\ key \in DOMAIN windows2
           /\ compare_tims_data(windows1[key], windows2[key])
    /\ \A key \in DOMAIN windows2 : key \in DOMAIN windows1

(* main's comparison of the two results.                                   *)
Compare ==
    /\ pc = "compare"
    /\ verdict' = <<compare_tims_data(data_original[1].ms1_data,
                                      data_v5[1].ms1_data),
                    compare_ms2_windows(data_original[1].ms2_windows,
                                        data_v5[1].ms2_windows)>>
    /\ pc' = "done"
    /\ UNCHANGED <<binary_search_impl, harnessVars,
                   locVars, quantVars, sharedVars,
                   frames, splits,
                   worker, channel, frame_buffer, next_frame, aggregator,
                   ms1_accumulator, ms2_map, data_original, data_v5>>

CompareNext ==
    \/ \E idx \in FrameIndices : OriginalMapFrame(idx)
    \/ \E idx \in FrameIndices : OriginalPanic(idx)
    \/ OriginalMerge
    \/ \E idx \in FrameIndices : V5FixedProcessFrame(idx)
    \/ \E idx \in FrameIndices : V5FixedSend(idx)
    \/ V5FixedAggregate
    \/ V5FixedDropSender
    \/ V5FixedAggregatorExit
    \/ V5FixedFinalize
    \/ Compare

SpecCompare == CompareInit /\ [][CompareNext]_vars

(***************************************************************************)
(* Claims about the comparison program (checked under SpecCompare).        *)
(***************************************************************************)
Rows(table) == { table[i] : i \in 1..Len(table) }

(* The frame output was merged: an MS1 table is a chunk of the             *)
(* accumulator, the rows of an MS2 pair are in the map under its key.      *)
Merged(frame_data) ==
    /\ frame_data.kind = "MS1" =>
           \E c \in 1..Len(ms1_accumulator) : ms1_accumulator[c] = frame_data.data
    /\ frame_data.kind = "MS2" =>
           \A p \in 1..Len(frame_data.pairs) :
               /\ frame_data.pairs[p][1] \in DOMAIN ms2_map
               /\ Rows(frame_data.pairs[p][2])
                      \subseteq Rows(ms2_map[frame_data.pairs[p][1]])

(* C1: when the aggregator thread of read_timstof_data_v5_fixed has        *)
(* exited, every message a worker sent has been merged and frame_buffer    *)
(* holds no unmerged entry, for every mix of frames and completion order.  *)
C1_AggregatorMergedEverything ==
    aggregator = "exited"
        => /\ \A idx \in FrameIndices : frame_buffer[idx] = <<>>
           /\ \A idx \in FrameIndices :
                  V5FixedOutput(idx) # <<>> => Merged(V5FixedOutput(idx)[1])

(* C3: for the same frames the results of read_timstof_data_original and   *)
(* read_timstof_data_v5_fixed pass the repository's comparison: the run    *)
(* both compare_tims_data on the MS1 tables and compare_ms2_windows return *)
(* true whenever the comparison is reached.                                *)
C3_ComparisonAccepts ==
    pc = "done" => verdict = <<TRUE, TRUE>>

(* C5: a window whose filtered table is empty is not emitted by the frame  *)
(* processor and the final ms2_windows has no key with a zero-row table.   *)
C5_NoEmptyWindow ==
    /\ \A idx \in FrameIndices :
           splits[idx] # <<>> =>
               \A p \in 1..Len(splits[idx][1].ms2) : splits[idx][1].ms2[p][2] # <<>>
    /\ data_original # <<>> =>
           \A key \in DOMAIN data_original[1].ms2_windows :
               data_original[1].ms2_windows[key] # <<>>

(* C10: a frame the source fails to return contributes an empty result,    *)
(* the other frames are still processed and the build does not abort.      *)
C10_ReadFailureNotFatal ==
    /\ pc # "panicked"
    /\ data_original # <<>> =>
           \A idx \in FrameIndices :
               (frames[idx].readable /\ frames[idx].ms_level = "MS1")
                   => Rows(PeakRows(idx, frames[idx], "linear"))
                          \subseteq Rows(data_original[1].ms1_data)

(***************************************************************************)
(* version2_lockfree_parallel: read_timstof_data starts an aggregator      *)
(* thread on a bounded channel, runs process_frame_worker for every frame  *)
(* index on the rayon pool, drops its sender, joins the aggregator and     *)
(* builds the result from ms1_accumulator and ms2_map.                     *)
(***************************************************************************)

(* What process_frame_worker sends for frame_idx, as an Option: nothing    *)
(* for a frame that cannot be read (Err(_) => return), the MS1 table of an *)
(* MS1 frame (also when it has no rows), the non-empty pairs of an MS2     *)
(* frame unless there is none, nothing for any other level.                *)
process_frame_worker(frame_idx) ==
    LET frame == frames[frame_idx]
        ms1   == PeakRows(frame_idx, frame, "binary")
        pairs == NonEmptyPairs(frame_idx, frame, "binary")
    IN  IF ~frame.readable THEN <<>>
        ELSE IF frame.ms_level = "MS1"
             THEN <<[kind |-> "MS1", data |-> ms1, pairs |-> <<>>]>>
        ELSE IF frame.ms_level = "MS2" /\ pairs # <<>>
             THEN <<[kind |-> "MS2", data |-> <<>>, pairs |-> pairs]>>
        ELSE <<>>

LockfreeInit ==
    /\ binary_search_impl \in BinarySearchImpls
    /\ HarnessIdle
    /\ LocIdle
    /\ QuantIdle
    /\ SharedIdle
    /\ frames \in [FrameIndices -> FrameShapes]
    /\ pc = "lockfree"
    /\ splits = <<>>
    /\ worker = [idx \in FrameIndices |-> "todo"]
    /\ channel = <<>>
    /\ frame_buffer = <<>>
    /\ next_frame = 0
    /\ aggregator = "running"
    /\ ms1_accumulator = <<>>
    /\ ms2_map = <<>>
    /\ data_original = <<>>
    /\ data_v5 = <<>>
    /\ verdict = <<>>

(* A pool thread takes frame idx and runs process_frame_worker up to its   *)
(* send; a call that sends nothing is finished.                            *)
LockfreeProcessFrame(idx) ==
    /\ pc = "lockfree"
    /\ worker[idx] = "todo"
    /\ Cardinality(InFlight) < NumThreads
    /\ worker' = [worker EXCEPT ![idx] =
                     IF process_frame_worker(idx) = <<>> THEN "done" ELSE "sending"]
    /\ UNCHANGED <<binary_search_impl, harnessVars,
                   locVars, quantVars, sharedVars, frames,
                   pc, splits, channel, frame_buffer, next_frame, aggregator,
                   ms1_accumulator, ms2_map, data_original, data_v5, verdict>>

(* A send that also waits until no other task is at its send.             *)
LockfreeSendExclusive(idx) ==
    /\ pc = "lockfree"
    /\ worker[idx] = "sending"
    /\ Len(channel) < ChannelCapacity
    /\ \A other \in FrameIndices \ {idx} : worker[other] # "sending"
    /\ channel' = Append(channel, process_frame_worker(idx)[1])
    /\ worker' = [worker EXCEPT ![idx] = "done"]
    /\ UNCHANGED <<binary_search_impl, harnessVars,
                   locVars, quantVars, sharedVars, frames,
                   pc, splits, frame_buffer, next_frame, aggregator,
                   ms1_accumulator, ms2_map, data_original, data_v5, verdict>>

(* let _ = sender.send(..): blocks while the queue holds                   *)
(* CHANNEL_BUFFER_SIZE messages; the receiver outlives every sender.       *)
LockfreeSend(idx) ==
    /\ pc = "lockfree"
    /\ worker[idx] = "sending"
    /\ Len(channel) < ChannelCapacity
    /\ channel' = Append(channel, process_frame_worker(idx)[1])
    /\ worker' = [worker EXCEPT ![idx] = "done"]
    /\ UNCHANGED <<binary_search_impl, harnessVars,
                   locVars, quantVars, sharedVars, frames,
                   pc, splits, frame_buffer, next_frame, aggregator,
                   ms1_accumulator, ms2_map, data_original, data_v5, verdict>>

(* ProcessedFrame::MS1(data) => ms1_acc_clone.lock().push(data)            *)
LockfreeMergeMs1(chunks, frame_data) ==
    IF frame_data.kind = "MS1" THEN Append(chunks, frame_data.data) ELSE chunks

(* ProcessedFrame::MS2(pairs) => for (key, data) in pairs                  *)
(* { ms2_map_clone.entry(key).or_insert_with(..).lock().merge_from(data) } *)
LockfreeMergeMs2(map, frame_data) ==
    IF frame_data.kind = "MS2" THEN MergePairs(map, frame_data.pairs) ELSE map

(* One turn of while let Ok(frame_data) = receiver.recv(): an MS1 table is *)
(* pushed on ms1_accumulator, every pair of an MS2 message is merged into  *)
(* its entry of ms2_map.                                                   *)
LockfreeAggregate ==
    /\ aggregator = "running"
    /\ pc \in {"lockfree", "lockfree_dropped"}
    /\ channel # <<>>
    /\ LET frame_data == Head(channel)
       IN  /\ channel' = Tail(channel)
           /\ ms1_accumulator' = LockfreeMergeMs1(ms1_accumulator, frame_data)
           /\ ms2_map' = LockfreeMergeMs2(ms2_map, frame_data)
    /\ UNCHANGED <<binary_search_impl, harnessVars,
                   locVars, quantVars, sharedVars, frames,
                   pc, splits, worker, frame_buffer, next_frame, aggregator,
                   data_original, data_v5, verdict>>

(* for_each has returned and the caller joins the aggregator while it      *)
(* still holds the sender.                                                 *)
LockfreeJoinBeforeDrop ==
    /\ pc = "lockfree"
    /\ \A idx \in FrameIndices : worker[idx] = "done"
    /\ pc' = "lockfree_joining"
    /\ UNCHANGED <<binary_search_impl, harnessVars,
                   locVars, quantVars, sharedVars, frames,
                   splits, worker, channel, frame_buffer, next_frame,
                   aggregator, ms1_accumulator, ms2_map, data_original,
                   data_v5, verdict>>

(* for_each has returned (every call has run): drop(sender).               *)
LockfreeDropSender ==
    /\ pc = "lockfree"
    /\ \A idx \in FrameIndices : worker[idx] = "done"
    /\ pc' = "lockfree_dropped"
    /\ UNCHANGED <<binary_search_impl, harnessVars,
                   locVars, quantVars, sharedVars, frames,
                   splits, worker, channel, frame_buffer, next_frame,
                   aggregator, ms1_accumulator, ms2_map, data_original,
                   data_v5, verdict>>

(* receiver.recv() returns Err once the queue is empty and every sender is *)
(* dropped: the loop and the thread end.                                   *)
LockfreeAggregatorExit ==
    /\ aggregator = "running"
    /\ pc = "lockfree_dropped"
    /\ channel = <<>>
    /\ aggregator' = "exited"
    /\ UNCHANGED <<binary_search_impl, harnessVars,
                   locVars, quantVars, sharedVars, frames,
                   pc, splits, worker, channel, frame_buffer, next_frame,
                   ms1_accumulator, ms2_map, data_original, data_v5, verdict>>

(* aggregator_handle.join(), then global_ms1 is the chunks of              *)
(* ms1_accumulator in order and ms2_vec the entries of ms2_map (kept by    *)
(* key); the function returns.                                             *)
LockfreeFinalize ==
    /\ pc = "lockfree_dropped"
    /\ aggregator = "exited"
    /\ raw_data' = <<[ms1_data |-> Concat(ms1_accumulator),
                      ms2_windows |-> ms2_map]>>
    /\ pc' = "returned"
    /\ UNCHANGED <<binary_search_impl, harnessVars,
                   locVars, quantVars, variant, win_pos,
                   ms1_chunks, global_ms1, frames, splits, worker, channel,
                   frame_buffer, next_frame, aggregator, ms1_accumulator,
                   ms2_map, data_original, data_v5, verdict>>

LockfreeNext ==
    \/ \E idx \in FrameIndices : LockfreeProcessFrame(idx)
    \/ \E idx \in FrameIndices : LockfreeSend(idx)
    \/ LockfreeAggregate
    \/ LockfreeDropSender
    \/ LockfreeAggregatorExit
    \/ LockfreeFinalize

SpecLockfree == LockfreeInit /\ [][LockfreeNext]_vars

(***************************************************************************)
(* Claims about version2_lockfree_parallel (checked under SpecLockfree).   *)
(***************************************************************************)

(* The orders in which the elements of S can come.                         *)
Orders(S) ==
    { order \in [1..Cardinality(S) -> S] :
          \A x \in S : \E i \in 1..Cardinality(S) : order[i] = x }

(* The frames whose worker sent an MS1 table, and those that sent a table  *)
(* under key.                                                              *)
SentMs1 ==
    { idx \in FrameIndices :
          /\ process_frame_worker(idx) # <<>>
          /\ process_frame_worker(idx)[1].kind = "MS1" }

TablesUnder(idx, key) ==
    IF process_frame_worker(idx) = <<>> THEN <<>>
    ELSE LET pairs == process_frame_worker(idx)[1].pairs
             under == SelectSeq(pairs, LAMBDA pair : pair[1] = key)
         IN  [i \in 1..Len(under) |-> under[i][2]]

SentUnder(key) == { idx \in FrameIndices : TablesUnder(idx, key) # <<>> }

SentKeys ==
    UNION { { process_frame_worker(idx)[1].pairs[p][1]
                 : p \in 1..Len(process_frame_worker(idx)[1].pairs) }
            : idx \in { i \in FrameIndices : process_frame_worker(i) # <<>> } }

(* C2: when read_timstof_data of version2_lockfree_parallel returns, the   *)
(* MS1 result is the concatenation, in some order of the frames, of every  *)
(* MS1 table a worker sent, the keys of the MS2 result are the keys sent,  *)
(* and every bucket is the concatenation, in some order of the frames, of  *)
(* every table sent under its key: each sent table is there exactly once.  *)
C2_EverySentTableMergedOnce ==
    (pc = "returned" /\ raw_data # <<>>)
        => /\ \E order \in Orders(SentMs1) :
                  raw_data[1].ms1_data =
                      Concat([i \in 1..Len(order) |->
                                 process_frame_worker(order[i])[1].data])
           /\ DOMAIN raw_data[1].ms2_windows = SentKeys
           /\ \A key \in SentKeys :
                  \E order \in Orders(SentUnder(key)) :
                      raw_data[1].ms2_windows[key] =
                          Concat([i \in 1..Len(order) |->
                                     Concat(TablesUnder(order[i], key))])

(* The reader has returned after a frame sent an MS1 table with rows and   *)
(* two frames sent tables under one key.                                   *)
C2_Witness ==
    /\ pc = "returned"
    /\ raw_data # <<>>
    /\ \E idx \in SentMs1 : process_frame_worker(idx)[1].data # <<>>
    /\ \E key \in SentKeys : Cardinality(SentUnder(key)) >= 2

(***************************************************************************)
(* The shared-state readers of src/main.rs: read_timstof_data_v2 (a        *)
(* DashMap of MS1 chunks by frame index and a DashMap of windows) and      *)
(* read_timstof_data_v4 (one MS1 table behind a RwLock and a DashMap of    *)
(* windows).  Every frame index is a task of the rayon pool; a task        *)
(* touches the shared state once for an MS1 frame and once per processed   *)
(* window for an MS2 frame; win_pos counts the windows it has processed.   *)
(***************************************************************************)
Variants == {"V2", "V4"}

(* ms1_chunks.insert(idx, ms1): the value of the key is set.               *)
DashMapInsert(map, key, value) == (key :> value) @@ map

(* An entry statement that sets the table of the key to td instead of      *)
(* extending the table already there.                                      *)
EntryOverwrite(map, key, td) == (key :> td) @@ map

(* ms2_map.entry(key).and_modify(|e| e.extend_from(&td)).or_insert(td):    *)
(* the entry holds the write lock of the key's shard from the lookup to    *)
(* the end of the statement.                                               *)
EntryAndModifyOrInsert(map, key, td) ==
    IF key \in DOMAIN map
    THEN [map EXCEPT ![key] = @ \o td]
    ELSE (key :> td) @@ map

SharedInit ==
    /\ binary_search_impl \in BinarySearchImpls
    /\ HarnessIdle
    /\ LocIdle
    /\ QuantIdle
    /\ variant \in Variants
    /\ frames \in [FrameIndices -> FrameShapes]
    /\ pc = "shared"
    /\ worker = [idx \in FrameIndices |-> "todo"]
    /\ win_pos = [idx \in FrameIndices |-> 0]
    /\ ms1_chunks = <<>>
    /\ global_ms1 = <<>>
    /\ ms2_map = <<>>
    /\ raw_data = <<>>
    /\ splits = <<>>
    /\ channel = <<>>
    /\ frame_buffer = <<>>
    /\ next_frame = 0
    /\ aggregator = "idle"
    /\ ms1_accumulator = <<>>
    /\ data_original = <<>>
    /\ data_v5 = <<>>
    /\ verdict = <<>>

Running == { idx \in DOMAIN worker : worker[idx] = "running" }

(* The closure has nothing to merge for a frame that is neither MS1 nor    *)
(* MS2 and for an MS2 frame whose window loop makes no turn.               *)
NothingToMerge(frame) ==
    /\ frame.ms_level # "MS1"
    /\ frame.ms_level = "MS2" => WindowsProcessed(frame) = 0

(* A pool thread takes frame idx: frames.get(idx) returns the frame; a     *)
(* closure with nothing to merge returns.                                  *)
SharedStartTask(idx) ==
    /\ pc = "shared"
    /\ worker[idx] = "todo"
    /\ Cardinality(Running) < NumThreads
    /\ frames[idx].readable
    /\ worker' = [worker EXCEPT ![idx] =
                     IF NothingToMerge(frames[idx]) THEN "done" ELSE "running"]
    /\ UNCHANGED <<binary_search_impl, harnessVars,
                   locVars, quantVars, variant, win_pos,
                   ms1_chunks, global_ms1, raw_data, frames, pc, splits,
                   channel, frame_buffer, next_frame, aggregator,
                   ms1_accumulator, ms2_map, data_original, data_v5, verdict>>

(* frames.get(idx).expect("frame read") on a frame that cannot be read:    *)
(* the task panics, for_each re-raises the panic in the caller and the     *)
(* reader never returns.                                                   *)
SharedPanic(idx) ==
    /\ pc = "shared"
    /\ worker[idx] = "todo"
    /\ Cardinality(Running) < NumThreads
    /\ ~frames[idx].readable
    /\ pc' = "panicked"
    /\ UNCHANGED <<binary_search_impl, harnessVars,
                   locVars, quantVars, sharedVars, frames,
                   splits, worker, channel, frame_buffer, next_frame,
                   aggregator, ms1_accumulator, ms2_map, data_original,
                   data_v5, verdict>>

(* V2, MS1 frame: ms1_chunks.insert(idx, ms1), the closure's last          *)
(* statement.                                                              *)
SharedInsertChunk(idx) ==
    /\ pc = "shared"
    /\ variant = "V2"
    /\ worker[idx] = "running"
    /\ frames[idx].ms_level = "MS1"
    /\ ms1_chunks' = DashMapInsert(ms1_chunks, idx,
                                   PeakRows(idx, frames[idx], "binary"))
    /\ worker' = [worker EXCEPT ![idx] = "done"]
    /\ UNCHANGED <<binary_search_impl, harnessVars,
                   locVars, quantVars, variant, global_ms1,
                   win_pos, raw_data, frames, pc, splits, channel, frame_buffer,
                   next_frame, aggregator, ms1_accumulator, ms2_map,
                   data_original, data_v5, verdict>>

(* An MS1 arm that stores its local table as the global one, as a write    *)
(* of a copy taken before another task's extend would.                     *)
SharedStoreMs1(idx) ==
    /\ pc = "shared"
    /\ variant = "V4"
    /\ worker[idx] = "running"
    /\ frames[idx].ms_level = "MS1"
    /\ global_ms1' = PeakRows(idx, frames[idx], "binary")
    /\ worker' = [worker EXCEPT ![idx] = "done"]
    /\ UNCHANGED <<binary_search_impl, harnessVars, locVars, quantVars,
                   variant, ms1_chunks, win_pos, raw_data, frames, pc, splits,
                   channel, frame_buffer, next_frame, aggregator,
                   ms1_accumulator, ms2_map, data_original, data_v5, verdict>>

(* V4, MS1 frame: let mut ms1 = ms1_lock.write();                          *)
(* ms1.extend_from(&local_ms1); under the write lock, the closure's last   *)
(* statements.                                                             *)
SharedExtendMs1(idx) ==
    /\ pc = "shared"
    /\ variant = "V4"
    /\ worker[idx] = "running"
    /\ frames[idx].ms_level = "MS1"
    /\ global_ms1' = global_ms1 \o PeakRows(idx, frames[idx], "binary")
    /\ worker' = [worker EXCEPT ![idx] = "done"]
    /\ UNCHANGED <<binary_search_impl, harnessVars,
                   locVars, quantVars, variant, ms1_chunks,
                   win_pos, raw_data, frames, pc, splits, channel, frame_buffer,
                   next_frame, aggregator, ms1_accumulator, ms2_map,
                   data_original, data_v5, verdict>>

(* The table the task of frame idx builds for its window w (1-based).      *)
WindowTable(idx, w) ==
    WindowRows(idx, frames[idx], frames[idx].windows[w], "binary")

(* MS2 frame, one turn of the window loop: the table of the next window    *)
(* is built and, if !td.mz_values.is_empty(), merged into its entry; the   *)
(* closure returns after the last turn.                                    *)
SharedEntry(idx) ==
    /\ pc = "shared"
    /\ worker[idx] = "running"
    /\ frames[idx].ms_level = "MS2"
    /\ win_pos[idx] < WindowsProcessed(frames[idx])
    /\ LET w   == win_pos[idx] + 1
           key == WindowKey(frames[idx].windows[w])
           td  == WindowTable(idx, w)
       IN  ms2_map' = IF td # <<>>
                      THEN EntryAndModifyOrInsert(ms2_map, key, td)
                      ELSE ms2_map
    /\ win_pos' = [win_pos EXCEPT ![idx] = @ + 1]
    /\ worker' = [worker EXCEPT ![idx] =
                     IF win_pos[idx] + 1 = WindowsProcessed(frames[idx])
                     THEN "done" ELSE "running"]
    /\ UNCHANGED <<binary_search_impl, harnessVars,
                   locVars, quantVars, variant, ms1_chunks,
                   global_ms1, raw_data, frames, pc, splits, channel,
                   frame_buffer, next_frame, aggregator, ms1_accumulator,
                   data_original, data_v5, verdict>>

(* V2 after for_each: for entry in ms1_chunks.into_iter()                  *)
(* { global_ms1.extend_from(&entry.1) }; a DashMap yields its entries in   *)
(* the order of its shards and hashes, any order of the frame indices.     *)
SharedFinalizeV2 ==
    /\ pc = "shared"
    /\ variant = "V2"
    /\ \A idx \in FrameIndices : worker[idx] = "done"
    /\ \E order \in { o \in [1..Cardinality(DOMAIN ms1_chunks) -> DOMAIN ms1_chunks] :
                         \A idx \in DOMAIN ms1_chunks :
                             \E i \in DOMAIN o : o[i] = idx } :
           raw_data' = <<[ms1_data |-> Concat([i \in DOMAIN order |->
                                                  ms1_chunks[order[i]]]),
                          ms2_windows |-> ms2_map]>>
    /\ pc' = "returned"
    /\ UNCHANGED <<binary_search_impl, harnessVars,
                   locVars, quantVars, variant, win_pos,
                   ms1_chunks, global_ms1, frames, splits, worker, channel,
                   frame_buffer, next_frame, aggregator, ms1_accumulator,
                   ms2_map, data_original, data_v5, verdict>>

(* V4 after for_each_with: the table is taken out of the RwLock and the    *)
(* map out of its Arc.                                                     *)
SharedFinalizeV4 ==
    /\ pc = "shared"
    /\ variant = "V4"
    /\ \A idx \in FrameIndices : worker[idx] = "done"
    /\ raw_data' = <<[ms1_data |-> global_ms1, ms2_windows |-> ms2_map]>>
    /\ pc' = "returned"
    /\ UNCHANGED <<binary_search_impl, harnessVars,
                   locVars, quantVars, variant, win_pos,
                   ms1_chunks, global_ms1, frames, splits, worker, channel,
                   frame_buffer, next_frame, aggregator, ms1_accumulator,
                   ms2_map, data_original, data_v5, verdict>>

SharedNext ==
    \/ \E idx \in FrameIndices : SharedStartTask(idx)
    \/ \E idx \in FrameIndices : SharedPanic(idx)
    \/ \E idx \in FrameIndices : SharedInsertChunk(idx)
    \/ \E idx \in FrameIndices : SharedExtendMs1(idx)
    \/ \E idx \in FrameIndices : SharedEntry(idx)
    \/ SharedFinalizeV2
    \/ SharedFinalizeV4

SpecShared == SharedInit /\ [][SharedNext]_vars

(***************************************************************************)
(* Claims about the shared-state readers (checked under SpecShared).       *)
(***************************************************************************)

(* The sequential reference: the peaks of the MS1 frames from idx on, and  *)
(* the peaks of the MS2 frames from idx on counted once per processed      *)
(* window whose scan range holds their scan.                               *)
RECURSIVE RefMs1Count(_)
RefMs1Count(idx) ==
    IF idx >= NFrames THEN 0
    ELSE (IF frames[idx].readable /\ frames[idx].ms_level = "MS1"
          THEN n_peaks(frames[idx]) ELSE 0) + RefMs1Count(idx + 1)

RefWindowRows(idx) ==
    LET pairs == AllPairs(idx, frames[idx], "linear")
    IN  Concat([w \in 1..Len(pairs) |-> pairs[w][2]])

RECURSIVE RefMs2Count(_)
RefMs2Count(idx) ==
    IF idx >= NFrames THEN 0
    ELSE (IF frames[idx].readable /\ frames[idx].ms_level = "MS2"
          THEN Len(RefWindowRows(idx)) ELSE 0) + RefMs2Count(idx + 1)

RECURSIVE SumLen(_)
SumLen(map) ==
    IF DOMAIN map = {} THEN 0
    ELSE LET key == CHOOSE k \in DOMAIN map : TRUE
         IN  Len(map[key]) + SumLen([k \in DOMAIN map \ {key} |-> map[k]])

(* C4: when read_timstof_data_v2 or read_timstof_data_v4 returns, the MS1  *)
(* row count is the sum of the peak counts of the MS1 frames and the sum   *)
(* of the window-table lengths is the number of (window, peak) pairs of    *)
(* the MS2 frames with the peak's scan in the window's scan range, as the  *)
(* sequential reference counts them.                                       *)
C4_Conservation ==
    (pc = "returned" /\ raw_data # <<>>)
        => /\ Len(raw_data[1].ms1_data) = RefMs1Count(0)
           /\ SumLen(raw_data[1].ms2_windows) = RefMs2Count(0)

(* What the task of frame idx has merged under key so far.                 *)
Contribution(idx, key) ==
    IF frames[idx].ms_level # "MS2" THEN <<>>
    ELSE Concat([w \in 1..win_pos[idx] |->
                    IF WindowKey(frames[idx].windows[w]) = key
                    THEN WindowTable(idx, w) ELSE <<>>])

RECURSIVE ContributedLen(_, _)
ContributedLen(key, idx) ==
    IF idx >= NFrames THEN 0
    ELSE Len(Contribution(idx, key)) + ContributedLen(key, idx + 1)

AllWindowKeys ==
    UNION { { WindowKey(frames[idx].windows[w]) : w \in 1..Len(frames[idx].windows) }
            : idx \in FrameIndices }

(* C9: at every moment of read_timstof_data_v2 and read_timstof_data_v4,   *)
(* for every window key, the map has one entry for the key as soon as a    *)
(* task has merged a non-empty table under it, the length of that entry is *)
(* the sum of the lengths merged under the key by all tasks, and the rows  *)
(* of every task's contribution are in it: no contribution overwrites      *)
(* another, whatever the interleaving of the tasks.                        *)
C9_DuplicateKeyAccumulates ==
    pc \in {"shared", "returned"}
        => \A key \in AllWindowKeys :
               IF ContributedLen(key, 0) = 0
               THEN key \notin DOMAIN ms2_map
               ELSE /\ key \in DOMAIN ms2_map
                    /\ Len(ms2_map[key]) = ContributedLen(key, 0)
                    /\ \A idx \in FrameIndices :
                           Rows(Contribution(idx, key)) \subseteq Rows(ms2_map[key])

(* Two tasks are running at the same time and both have merged a non-empty *)
(* table under one key.                                                    *)
C9_Witness ==
    \E i \in FrameIndices, j \in FrameIndices, key \in AllWindowKeys :
        /\ i # j
        /\ pc = "shared"
        /\ worker[i] = "running" /\ worker[j] = "running"
        /\ Contribution(i, key) # <<>> /\ Contribution(j, key) # <<>>
        /\ Len(ms2_map[key]) = Len(Contribution(i, key)) + Len(Contribution(j, key))

(***************************************************************************)
(* version2_lockfree_parallel with an aggregator thread that may end       *)
(* abnormally (a panic inside the thread's closure) at any point of its    *)
(* loop.  The receiver is owned by the closure: the panic drops it with    *)
(* the messages still queued, later sends return Err, and                  *)
(* aggregator_handle.join() returns Err.                                   *)
(***************************************************************************)

(* The aggregator thread panics: the receiver and its queue are dropped.   *)
LockfreeAggregatorPanic ==
    /\ aggregator = "running"
    /\ pc \in {"lockfree", "lockfree_dropped"}
    /\ aggregator' = "panicked"
    /\ channel' = <<>>
    /\ UNCHANGED <<binary_search_impl, harnessVars,
                   locVars, quantVars, sharedVars, frames,
                   pc, splits, worker, frame_buffer, next_frame,
                   ms1_accumulator, ms2_map, data_original, data_v5, verdict>>

(* sender.send(..) while the receiver lives.                               *)
LockfreeSendLive(idx) ==
    /\ aggregator = "running"
    /\ LockfreeSend(idx)

(* let _ = sender.send(..) after the receiver is dropped: send returns     *)
(* Err(SendError), which is discarded, and the worker returns.             *)
LockfreeSendIgnored(idx) ==
    /\ pc = "lockfree"
    /\ worker[idx] = "sending"
    /\ aggregator = "panicked"
    /\ worker' = [worker EXCEPT ![idx] = "done"]
    /\ UNCHANGED <<binary_search_impl, harnessVars,
                   locVars, quantVars, sharedVars, frames,
                   pc, splits, channel, frame_buffer, next_frame, aggregator,
                   ms1_accumulator, ms2_map, data_original, data_v5, verdict>>

(* A join whose Err is discarded: the reader goes on to build and return   *)
(* its result from what the aggregator had merged.                         *)
LockfreeJoinDiscarded ==
    /\ pc = "lockfree_dropped"
    /\ aggregator = "panicked"
    /\ raw_data' = <<[ms1_data |-> Concat(ms1_accumulator),
                      ms2_windows |-> ms2_map]>>
    /\ pc' = "returned"
    /\ UNCHANGED <<binary_search_impl, harnessVars,
                   locVars, quantVars, variant, win_pos,
                   ms1_chunks, global_ms1, frames, splits, worker, channel,
                   frame_buffer, next_frame, aggregator, ms1_accumulator,
                   ms2_map, data_original, data_v5, verdict>>

(* aggregator_handle.join().unwrap() on the Err of a panicked thread: the  *)
(* caller panics and read_timstof_data does not return.                    *)
LockfreeJoinUnwrap ==
    /\ pc = "lockfree_dropped"
    /\ aggregator = "panicked"
    /\ pc' = "panicked"
    /\ UNCHANGED <<binary_search_impl, harnessVars,
                   locVars, quantVars, sharedVars, frames,
                   splits, worker, channel, frame_buffer, next_frame,
                   aggregator, ms1_accumulator, ms2_map, data_original,
                   data_v5, verdict>>

LockfreeFaultNext ==
    \/ \E idx \in FrameIndices : LockfreeProcessFrame(idx)
    \/ \E idx \in FrameIndices : LockfreeSendLive(idx)
    \/ \E idx \in FrameIndices : LockfreeSendIgnored(idx)
    \/ LockfreeAggregate
    \/ LockfreeAggregatorPanic
    \/ LockfreeDropSender
    \/ LockfreeAggregatorExit
    \/ LockfreeFinalize
    \/ LockfreeJoinUnwrap

SpecLockfreeFault == LockfreeInit /\ [][LockfreeFaultNext]_vars

(* The output of frame idx is in the aggregator's accumulators.            *)
OutputMerged(idx) ==
    LET out == process_frame_worker(idx)[1]
    IN  /\ out.kind = "MS1" => Rows(out.data) \subseteq Rows(Concat(ms1_accumulator))
        /\ out.kind = "MS2" =>
               \A p \in 1..Len(out.pairs) :
                   /\ out.pairs[p][1] \in DOMAIN ms2_map
                   /\ Rows(out.pairs[p][2]) \subseteq Rows(ms2_map[out.pairs[p][1]])

(* C11: once the aggregator thread of version2_lockfree_parallel has ended *)
(* abnormally, read_timstof_data has not returned and never returns a      *)
(* result; a result that is returned holds the output of every frame that  *)
(* had one.                                                                *)
C11_AggregatorFailureIsFatal ==
    /\ aggregator = "panicked" => (pc # "returned" /\ raw_data = <<>>)
    /\ pc = "returned" =>
           \A idx \in FrameIndices :
               process_frame_worker(idx) # <<>> => OutputMerged(idx)

(* The caller has panicked in join().unwrap() after the aggregator had     *)
(* merged the output of one frame and a worker's failed send of another    *)
(* frame's output was discarded.                                           *)
C11_Witness ==
    /\ pc = "panicked"
    /\ aggregator = "panicked"
    /\ ms1_accumulator # <<>> \/ ms2_map # <<>>
    /\ \E idx \in FrameIndices :
           /\ process_frame_worker(idx) # <<>>
           /\ process_frame_worker(idx)[1].kind = "MS2"
           /\ ~OutputMerged(idx)

(***************************************************************************)
(* Harness of the merges: the contributions of the frames are merged one   *)
(* at a time, in index order, by the merge loop of the original reader or  *)
(* by the aggregator of version2_lockfree_parallel; the result as a caller *)
(* would see it is recorded before every merge.                            *)
(***************************************************************************)
MergeStrategies == {"original", "lockfree"}

ReadableShapes == { frame \in FrameShapes : frame.readable }

(* The result the reader would build from the merged state: the original   *)
(* returns global_ms1 and ms2_hash, version2 the concatenation of          *)
(* ms1_accumulator and ms2_map.                                            *)
MergeResult ==
    [ms1_data    |-> IF merge_strategy = "original" THEN global_ms1
                     ELSE Concat(ms1_accumulator),
     ms2_windows |-> ms2_map]

MergeInit ==
    /\ binary_search_impl \in BinarySearchImpls
    /\ FrameIdle
    /\ SearchIdle
    /\ BatchIdle
    /\ ExtraIdle
    /\ LocIdle
    /\ QuantIdle
    /\ merge_strategy \in MergeStrategies
    /\ frames \in [FrameIndices -> ReadableShapes]
    /\ merge_pos = 0
    /\ merge_last = <<>>
    /\ merge_before = <<>>
    /\ pc = "merge"
    /\ variant = "none"
    /\ win_pos = <<>>
    /\ ms1_chunks = <<>>
    /\ global_ms1 = <<>>
    /\ raw_data = <<>>
    /\ splits = <<>>
    /\ worker = <<>>
    /\ channel = <<>>
    /\ frame_buffer = <<>>
    /\ next_frame = 0
    /\ aggregator = "idle"
    /\ ms1_accumulator = <<>>
    /\ ms2_map = <<>>
    /\ data_original = <<>>
    /\ data_v5 = <<>>
    /\ verdict = <<>>

(* The original's merge loop takes the split of the next frame.            *)
MergeOriginalSplit ==
    /\ pc = "merge"
    /\ merge_strategy = "original"
    /\ merge_pos < NFrames
    /\ LET split == FrameSplit(merge_pos)
           acc   == MergeSplit([ms1_data |-> global_ms1, ms2_windows |-> ms2_map],
                               split)
       IN  /\ global_ms1' = acc.ms1_data
           /\ ms2_map' = acc.ms2_windows
           /\ merge_last' = <<[ms1 |-> split.ms1, pairs |-> split.ms2]>>
    /\ merge_before' = <<MergeResult>>
    /\ merge_pos' = merge_pos + 1
    /\ UNCHANGED <<binary_search_impl, locVars, quantVars, merge_strategy,
                   iso_mz, iso_width, processed, searchVars, batchVars, extraVars,
                   variant, win_pos, ms1_chunks, raw_data, frames, pc, splits,
                   worker, channel, frame_buffer, next_frame, aggregator,
                   ms1_accumulator, data_original, data_v5, verdict>>

(* The aggregator of version2 receives the message of the next frame that  *)
(* sends one.                                                              *)
MergeLockfreeMessage ==
    /\ pc = "merge"
    /\ merge_strategy = "lockfree"
    /\ merge_pos < NFrames
    /\ LET out == process_frame_worker(merge_pos)
       IN  IF out = <<>>
           THEN UNCHANGED <<ms1_accumulator, ms2_map, merge_last, merge_before>>
           ELSE /\ ms1_accumulator' = LockfreeMergeMs1(ms1_accumulator, out[1])
                /\ ms2_map' = LockfreeMergeMs2(ms2_map, out[1])
                /\ merge_last' = <<[ms1 |-> out[1].data, pairs |-> out[1].pairs]>>
                /\ merge_before' = <<MergeResult>>
    /\ merge_pos' = merge_pos + 1
    /\ UNCHANGED <<binary_search_impl, locVars, quantVars, merge_strategy,
                   iso_mz, iso_width, processed, searchVars, batchVars, extraVars,
                   variant, win_pos, ms1_chunks, global_ms1, raw_data, frames,
                   pc, splits, worker, channel, frame_buffer, next_frame,
                   aggregator, data_original, data_v5, verdict>>

MergeNext == MergeOriginalSplit \/ MergeLockfreeMessage

SpecMerge == MergeInit /\ [][MergeNext]_vars

(* C12: after the merge of an empty contribution (an empty MS1 table and   *)
(* no window pair), by the original's merge loop or by the aggregator of   *)
(* version2, the result is the result before the merge: the same MS1 rows, *)
(* the same window keys, the same rows under every key.                    *)
C12_EmptyMergeChangesNothing ==
    (merge_last # <<>> /\ merge_last[1].ms1 = <<>> /\ merge_last[1].pairs = <<>>)
        => /\ merge_before[1].ms1_data = MergeResult.ms1_data
           /\ DOMAIN merge_before[1].ms2_windows = DOMAIN MergeResult.ms2_windows
           /\ \A key \in DOMAIN MergeResult.ms2_windows :
                  merge_before[1].ms2_windows[key] = MergeResult.ms2_windows[key]

(* An empty contribution has been merged into a state that held MS1 rows   *)
(* and a window.                                                           *)
C12_Witness ==
    /\ merge_last # <<>>
    /\ merge_last[1].ms1 = <<>>
    /\ merge_last[1].pairs = <<>>
    /\ merge_before[1].ms1_data # <<>>
    /\ DOMAIN merge_before[1].ms2_windows # {}

(***************************************************************************)
(* Claims about the streaming accumulator, read_timstof_data_v4 (checked   *)
(* under SpecShared).                                                      *)
(***************************************************************************)

(* The run in which the tasks execute one after the other in index order.  *)
RECURSIVE InOrderRun(_, _)
InOrderRun(acc, idx) ==
    IF idx >= NFrames THEN acc
    ELSE LET frame == frames[idx]
         IN  InOrderRun(
                 [ms1_data    |->
                      IF frame.ms_level = "MS1"
                      THEN acc.ms1_data \o PeakRows(idx, frame, "binary")
                      ELSE acc.ms1_data,
                  ms2_windows |->
                      IF frame.ms_level = "MS2"
                      THEN MergePairs(acc.ms2_windows,
                                      NonEmptyPairs(idx, frame, "binary"))
                      ELSE acc.ms2_windows],
                 idx + 1)

(* C13: every execution of read_timstof_data_v4 on the same frames returns *)
(* the multiset of MS1 rows, the window keys and, for every key, the       *)
(* multiset of rows of the execution that runs the tasks in index order:   *)
(* any two executions differ in row order only.                            *)
C13_DeterministicUpToRowOrder ==
    (pc = "returned" /\ variant = "V4" /\ raw_data # <<>>)
        => LET ref == InOrderRun(EmptyData, 0)
           IN  /\ SortRows(raw_data[1].ms1_data) = SortRows(ref.ms1_data)
               /\ DOMAIN raw_data[1].ms2_windows = DOMAIN ref.ms2_windows
               /\ \A key \in DOMAIN ref.ms2_windows :
                      SortRows(raw_data[1].ms2_windows[key])
                          = SortRows(ref.ms2_windows[key])

(* read_timstof_data_v4 has returned from an interleaving that put the MS1 *)
(* rows or the rows of a window in another order than the in-order run.    *)
C13_Witness ==
    /\ pc = "returned"
    /\ variant = "V4"
    /\ raw_data # <<>>
    /\ \/ raw_data[1].ms1_data # InOrderRun(EmptyData, 0).ms1_data
       \/ \E key \in DOMAIN raw_data[1].ms2_windows :
              raw_data[1].ms2_windows[key] # InOrderRun(EmptyData, 0).ms2_windows[key]

(***************************************************************************)
(* Harness of the MS2 branch of process_frame_worker (version2): a frame   *)
(* with one isolation window whose scan range covers every scan.  The      *)
(* isolation center and width are multiples of 1/64 (MzDen), for which the *)
(* f32 subtraction, addition and product by 10_000.0 are exact.            *)
(***************************************************************************)
MzDen == 64

(* The f32 product x * 10_000.0 of x = x64 / MzDen, as a numerator over    *)
(* QDen.                                                                   *)
ProductOf(x64) == (x64 * 10000 * QDen) \div MzDen

(* prec_mz = isolation_mz[win]; width = isolation_width[win];              *)
(* low = prec_mz - width * 0.5; high = prec_mz + width * 0.5, with the     *)
(* window's scan range.                                                    *)
WindowOf(mz64, width64, scan_start, scan_end) ==
    Window(ProductOf(mz64 - width64 \div 2), ProductOf(mz64 + width64 \div 2),
           scan_start, scan_end)

(* Centers and widths drawn: the pair of the 500.0 / 2.0 scenario and      *)
(* every small pair with an even width and a non-negative lower boundary.  *)
IsoSettings ==
    { <<500 * MzDen, 2 * MzDen>> }
        \cup { setting \in (0..MaxIsoMz) \X (0..(2 * MaxIsoMz)) :
                   setting[2] % 2 = 0 /\ setting[2] \div 2 <= setting[1] }

WindowInit ==
    /\ binary_search_impl \in BinarySearchImpls
    /\ LocIdle
    /\ QuantIdle
    /\ SharedIdle
    /\ MergeIdle
    /\ SearchIdle
    /\ BatchIdle
    /\ ExtraIdle
    /\ \E setting \in IsoSettings :
           iso_mz = setting[1] /\ iso_width = setting[2]
    /\ \E scan_offsets \in OffsetsTables :
           frames = (0 :> Frame("MS2", TRUE, scan_offsets,
                                <<WindowOf(iso_mz, iso_width, 0,
                                           Len(scan_offsets) - 2)>>, 1))
    /\ processed = <<>>
    /\ pc = "frame"
    /\ splits = <<>>
    /\ worker = <<>>
    /\ channel = <<>>
    /\ frame_buffer = <<>>
    /\ next_frame = 0
    /\ aggregator = "idle"
    /\ ms1_accumulator = <<>>
    /\ ms2_map = <<>>
    /\ data_original = <<>>
    /\ data_v5 = <<>>
    /\ verdict = <<>>

(* process_frame_worker is called on the frame; what it sends is kept.     *)
WindowProcess ==
    /\ pc = "frame"
    /\ processed = <<>>
    /\ processed' = <<process_frame_worker(0)>>
    /\ UNCHANGED <<binary_search_impl, locVars, quantVars, pipeVars, mergeVars,
                   iso_mz, iso_width, searchVars, batchVars, extraVars>>

WindowNext == WindowProcess

SpecWindow == WindowInit /\ [][WindowNext]_vars

(* k is round(((mz64 - width64/2) / 64) * 10000) resp. with +, ties away   *)
(* from zero, over the rationals.                                          *)
IsRoundedBoundary(k, twice64) ==
    2 * 2 * MzDen * k - 2 * MzDen <= 2 * twice64 * 10000
        /\ 2 * twice64 * 10000 < 2 * 2 * MzDen * k + 2 * MzDen

(* The frame yields one pair, with the rounded boundaries as key and one   *)
(* row per peak in peak order.                                             *)
SinglePairResult ==
    /\ processed[1] # <<>>
    /\ processed[1][1].kind = "MS2"
    /\ Len(processed[1][1].pairs) = 1
    /\ LET key == processed[1][1].pairs[1][1]
           td  == processed[1][1].pairs[1][2]
       IN  /\ IsRoundedBoundary(key[1], 2 * iso_mz - iso_width)
           /\ IsRoundedBoundary(key[2], 2 * iso_mz + iso_width)
           /\ Len(td) = n_peaks(frames[0])
           /\ \A i \in 1..Len(td) : td[i][1] = 0 /\ td[i][3] = i - 1

(* C14 as stated: an MS2 frame with one window of center c and width w     *)
(* whose scan range covers every scan yields exactly one (key, table)      *)
(* pair, with key (round((c - w/2) * 10000), round((c + w/2) * 10000)) and *)
(* one row per peak.                                                       *)
C14_SingleWindowOnePair ==
    processed # <<>> => SinglePairResult

(* C14 for frames with peaks: an MS2 frame with at least one peak and one  *)
(* window of center c and width w whose scan range covers every scan       *)
(* yields exactly one (key, table) pair, with key (round((c - w/2) *       *)
(* 10000), round((c + w/2) * 10000)) and one row per peak; a frame without *)
(* peaks yields no pair and nothing is sent.                               *)
C14_SingleWindowOnePairIfPeaks ==
    processed # <<>>
        => IF n_peaks(frames[0]) >= 1 THEN SinglePairResult
           ELSE processed[1] = <<>>

(* The 500.0 / 2.0 window on a frame with 2 peaks has given the key        *)
(* (4990000, 5010000) and a table of 2 rows.                               *)
C14_Witness ==
    /\ processed # <<>>
    /\ iso_mz = 500 * MzDen
    /\ iso_width = 2 * MzDen
    /\ n_peaks(frames[0]) = 2
    /\ processed[1] # <<>>
    /\ processed[1][1].pairs[1][1] = <<4990000, 5010000>>
    /\ Len(processed[1][1].pairs[1][2]) = 2

(***************************************************************************)
(* The hand-written binary search of version3, version4 and version5, and  *)
(* the batching MS1 branch of version3.                                    *)
(***************************************************************************)
(* A midpoint that rounds down.                                            *)
SearchMidFloor(left, right) == left + ((right - left) \div 2)

(* let mid = left + ((right - left + 1) >> 1);                             *)
SearchMid(left, right) == left + ((right - left + 1) \div 2)

(* A comparison that sends an offset equal to the position to the left.    *)
GoesRightStrict(value, index) == value < index

(* if scan_offsets[mid] <= index { left = mid; } else { right = mid - 1; } *)
GoesRight(value, index) == value <= index

RECURSIVE BinaryLoop(_, _, _, _)
BinaryLoop(left, right, index, scan_offsets) ==
    IF left < right
    THEN LET mid == SearchMid(left, right)
         IN  IF GoesRight(scan_offsets[mid + 1], index)
             THEN BinaryLoop(mid, right, index, scan_offsets)
             ELSE BinaryLoop(left, mid - 1, index, scan_offsets)
    ELSE left

(* version3's find_scan_for_index_binary: the loop from left = 0 and       *)
(* right = scan_offsets.len() - 1.                                         *)
find_scan_for_index_binary_v3(index, scan_offsets) ==
    BinaryLoop(0, Len(scan_offsets) - 1, index, scan_offsets)

Min(a, b) == IF a <= b THEN a ELSE b

(* frame.intensities: peak p (from 1) has intensity 10 * p.                *)
Intensities(frame) == [p \in 1..n_peaks(frame) |-> 10 * p]

(* Batch indices that restart at 0 in every batch.                         *)
BatchIndicesLocal(i, batch_end) == [k \in 1..(batch_end - i) |-> k - 1]

(* let batch_indices: Vec<usize> = (i..batch_end).collect();               *)
BatchIndices(i, batch_end) == [k \in 1..(batch_end - i) |-> i + k - 1]

(* process_peaks_batch: one row per peak of the batch, appended to output. *)
process_peaks_batch(intensity_batch, indices, scan_offsets, frame_index, output) ==
    output \o [k \in 1..Len(intensity_batch) |->
                  <<frame_index,
                    find_scan_for_index_binary_v3(indices[k], scan_offsets),
                    intensity_batch[k]>>]

BatchTables ==
    UNION { { s \in [1..len -> 0..MaxBatchPeaks] : IsOffsetsTable(s) }
            : len \in 2..(MaxBatchScans + 1) }

(* The frame the batching reader is at.                                    *)
BatchFrameIndex == CHOOSE idx \in DOMAIN frames : TRUE

BatchInit ==
    /\ binary_search_impl = "branchless"
    /\ LocIdle
    /\ QuantIdle
    /\ SharedIdle
    /\ MergeIdle
    /\ FrameIdle
    /\ SearchIdle
    /\ ExtraIdle
    /\ \E idx \in FrameIndices, scan_offsets \in BatchTables :
           frames = (idx :> Frame("MS1", TRUE, scan_offsets, <<>>, 0))
    /\ peak_i = 0
    /\ ms1_table = <<>>
    /\ pc = "batching"
    /\ splits = <<>>
    /\ worker = <<>>
    /\ channel = <<>>
    /\ frame_buffer = <<>>
    /\ next_frame = 0
    /\ aggregator = "idle"
    /\ ms1_accumulator = <<>>
    /\ ms2_map = <<>>
    /\ data_original = <<>>
    /\ data_v5 = <<>>
    /\ verdict = <<>>

(* One turn of while i < n_peaks: a batch of at most BATCH_SIZE peaks.     *)
BatchStep ==
    /\ pc = "batching"
    /\ peak_i < n_peaks(frames[BatchFrameIndex])
    /\ LET frame == frames[BatchFrameIndex]
           batch_end == Min(peak_i + BATCH_SIZE, n_peaks(frame))
       IN  /\ ms1_table' = process_peaks_batch(
                               SubSeq(Intensities(frame), peak_i + 1, batch_end),
                               BatchIndices(peak_i, batch_end),
                               frame.scan_offsets, BatchFrameIndex, ms1_table)
           /\ peak_i' = batch_end
    /\ UNCHANGED <<binary_search_impl, locVars, quantVars, pipeVars, mergeVars,
                   iso_mz, iso_width, processed, searchVars, extraVars>>

(* The loop is left and the frame's FrameSplit is returned.                *)
BatchReturn ==
    /\ pc = "batching"
    /\ ~(peak_i < n_peaks(frames[BatchFrameIndex]))
    /\ pc' = "batched"
    /\ UNCHANGED <<binary_search_impl, locVars, quantVars, mergeVars,
                   iso_mz, iso_width, processed, searchVars, batchVars, extraVars,
                   frames, splits, worker, channel, frame_buffer, next_frame,
                   aggregator, ms1_accumulator, ms2_map, data_original, data_v5,
                   verdict, sharedVars>>

BatchNext == BatchStep \/ BatchReturn

SpecBatch == BatchInit /\ [][BatchNext]_vars

(* C15: the table of an MS1 frame with n peaks, batched by BATCH_SIZE, has *)
(* exactly n rows in peak order, for every n including 0 and n that is not *)
(* a multiple of BATCH_SIZE; row i carries the frame id, the scan whose    *)
(* offset range contains position i, and intensities[i].                   *)
C15_BatchedTableHasEveryPeak ==
    pc = "batched" =>
        LET frame == frames[BatchFrameIndex]
        IN  /\ Len(ms1_table) = n_peaks(frame)
            /\ \A p \in 1..n_peaks(frame) :
                   /\ ms1_table[p][1] = BatchFrameIndex
                   /\ ScanContains(frame.scan_offsets, ms1_table[p][2], p - 1)
                   /\ ms1_table[p][3] = Intensities(frame)[p]

(* A frame of more than one batch, the last one partial, with peaks in     *)
(* more than one scan, has been converted.                                 *)
C15_Witness ==
    /\ pc = "batched"
    /\ n_peaks(frames[BatchFrameIndex]) > BATCH_SIZE
    /\ n_peaks(frames[BatchFrameIndex]) % BATCH_SIZE # 0
    /\ Len(ms1_table) = n_peaks(frames[BatchFrameIndex])
    /\ ms1_table[1][2] # ms1_table[Len(ms1_table)][2]

(***************************************************************************)
(* Harness of the MS2 branch of the original reader and of main.rs V1: an  *)
(* MS2 frame whose isolation_width may be shorter than its isolation_mz.   *)
(***************************************************************************)
(* read_timstof_data_v1's closure: the locator is                          *)
(* find_scan_for_index_binary, every window is pushed.                     *)
FrameSplitV1(idx) ==
    LET frame == frames[idx]
    IN  [ms1 |-> IF frame.ms_level = "MS1"
                 THEN PeakRows(idx, frame, "binary") ELSE <<>>,
         ms2 |-> IF frame.ms_level = "MS2"
                 THEN AllPairs(idx, frame, "binary") ELSE <<>>]

TruncateWindows ==
    { Window(8, 16, 0, 0), Window(24, 32, 0, 1), Window(40, 48, 1, 1) }

TruncateWindowLists ==
    UNION { [1..len -> TruncateWindows] : len \in 1..MaxWindows }

TruncateTables == { <<0, 1, 2>>, <<0, 0, 2>>, <<0, 2, 2>> }

TruncateInit ==
    /\ binary_search_impl \in BinarySearchImpls
    /\ LocIdle
    /\ QuantIdle
    /\ MergeIdle
    /\ SearchIdle
    /\ BatchIdle
    /\ ExtraIdle
    /\ iso_mz = 0
    /\ iso_width = 0
    /\ processed = <<>>
    /\ variant \in {"original", "V1"}
    /\ \E windows \in TruncateWindowLists, scan_offsets \in TruncateTables :
           \E n_width \in 0..Len(windows) :
               frames = (0 :> Frame("MS2", TRUE, scan_offsets, windows, n_width))
    /\ pc = "frame"
    /\ win_pos = <<>>
    /\ ms1_chunks = <<>>
    /\ global_ms1 = <<>>
    /\ raw_data = <<>>
    /\ splits = <<>>
    /\ worker = <<>>
    /\ channel = <<>>
    /\ frame_buffer = <<>>
    /\ next_frame = 0
    /\ aggregator = "idle"
    /\ ms1_accumulator = <<>>
    /\ ms2_map = <<>>
    /\ data_original = <<>>
    /\ data_v5 = <<>>
    /\ verdict = <<>>

(* The closure of the original reader on frame 0.                          *)
TruncateOriginal ==
    /\ pc = "frame"
    /\ variant = "original"
    /\ processed = <<>>
    /\ processed' = <<FrameSplit(0)>>
    /\ UNCHANGED <<binary_search_impl, locVars, quantVars, pipeVars, mergeVars,
                   iso_mz, iso_width, searchVars, batchVars, extraVars>>

(* The closure of read_timstof_data_v1 on frame 0.                         *)
TruncateV1 ==
    /\ pc = "frame"
    /\ variant = "V1"
    /\ processed = <<>>
    /\ processed' = <<FrameSplitV1(0)>>
    /\ UNCHANGED <<binary_search_impl, locVars, quantVars, pipeVars, mergeVars,
                   iso_mz, iso_width, searchVars, batchVars, extraVars>>

TruncateNext == TruncateOriginal \/ TruncateV1

SpecTruncate == TruncateInit /\ [][TruncateNext]_vars

(* C16: for an MS2 frame with fewer isolation widths than isolation        *)
(* centers, the frame's result holds exactly the windows with index below  *)
(* isolation_width.len(), in window order with their keys and with rows of *)
(* the frame only; the windows from the first missing width on are absent. *)
C16_TruncatedAtFirstMissingWidth ==
    (processed # <<>> /\ frames[0].n_width < Len(frames[0].windows)) =>
        LET frame == frames[0]
            ms2 == processed[1].ms2
        IN  /\ Len(ms2) = frame.n_width
            /\ \A w \in 1..frame.n_width :
                   /\ ms2[w][1] = WindowKey(frame.windows[w])
                   /\ \A r \in 1..Len(ms2[w][2]) :
                          /\ ms2[w][2][r][1] = 0
                          /\ ms2[w][2][r][3] \in 0..(n_peaks(frame) - 1)
            /\ processed[1].ms1 = <<>>

(* A frame with three centers and one width has been processed: one pair,  *)
(* with rows, is kept.                                                     *)
C16_Witness ==
    /\ processed # <<>>
    /\ Len(frames[0].windows) = 3
    /\ frames[0].n_width = 1
    /\ Len(processed[1].ms2) = 1
    /\ processed[1].ms2[1][2] # <<>>

(***************************************************************************)
(* The fallback of the linear locator.                                     *)
(***************************************************************************)
NoScanContains(scan_offsets, index) ==
    \A s \in 0..(Len(scan_offsets) - 2) : ~ScanContains(scan_offsets, s, index)

(* C17: when no interval [offsets[s], offsets[s+1]) contains the position, *)
(* find_scan_for_index returns the index of the last scan, scan_count - 1  *)
(* with scan_count = len(offsets) - 1.                                     *)
C17_FallbackIsLastScan ==
    (scan_linear # -1 /\ NoScanContains(scan_offsets_in, index_in))
        => scan_linear = (Len(scan_offsets_in) - 1) - 1

(***************************************************************************)
(* The hand-written binary search, one loop turn per step.  The tables are *)
(* the reader's (from 0, non-decreasing) of any length from 1; the         *)
(* position may lie beyond the final offset.                               *)
(***************************************************************************)
SearchTables ==
    UNION { { s \in [1..len -> 0..MaxPeaks] :
                /\ s[1] = 0
                /\ \A k \in 1..(len - 1) : s[k] <= s[k + 1] }
            : len \in 1..(MaxScans + 1) }

(* *scan_offsets.get_unchecked(mid): the element when mid is inside the    *)
(* slice, any value when it is not (undefined behaviour).                  *)
get_unchecked(scan_offsets, mid) ==
    IF mid \in 0..(Len(scan_offsets) - 1)
    THEN {scan_offsets[mid + 1]}
    ELSE 0..(MaxPeaks + 1)

SearchInit ==
    /\ binary_search_impl = "branchless"
    /\ scan_offsets_in \in SearchTables
    /\ index_in \in 0..(MaxPeaks + 1)
    /\ scan_linear = -1
    /\ scan_binary = -1
    /\ search_left = 0
    /\ search_right = Len(scan_offsets_in) - 1
    /\ reads = <<>>
    /\ QuantIdle
    /\ SharedIdle
    /\ MergeIdle
    /\ FrameIdle
    /\ BatchIdle
    /\ ExtraIdle
    /\ frames = <<>>
    /\ pc = "search_loop"
    /\ splits = <<>>
    /\ worker = <<>>
    /\ channel = <<>>
    /\ frame_buffer = <<>>
    /\ next_frame = 0
    /\ aggregator = "idle"
    /\ ms1_accumulator = <<>>
    /\ ms2_map = <<>>
    /\ data_original = <<>>
    /\ data_v5 = <<>>
    /\ verdict = <<>>

(* One turn of while left < right.                                         *)
SearchStep ==
    /\ pc = "search_loop"
    /\ search_left < search_right
    /\ LET mid == SearchMid(search_left, search_right)
       IN  /\ reads' = Append(reads, mid)
           /\ \E value \in get_unchecked(scan_offsets_in, mid) :
                  IF GoesRight(value, index_in)
                  THEN search_left' = mid /\ search_right' = search_right
                  ELSE search_right' = mid - 1 /\ search_left' = search_left
    /\ UNCHANGED <<binary_search_impl, locVars, quantVars, pipeVars, mergeVars,
                   iso_mz, iso_width, processed, batchVars, extraVars>>

(* The loop is left and left is returned.                                  *)
SearchReturn ==
    /\ pc = "search_loop"
    /\ ~(search_left < search_right)
    /\ scan_binary' = search_left
    /\ pc' = "search_returned"
    /\ UNCHANGED <<binary_search_impl, scan_offsets_in, index_in, scan_linear,
                   quantVars, harnessVars,
                   frames, splits, worker, channel, frame_buffer, next_frame,
                   aggregator, ms1_accumulator, ms2_map, data_original, data_v5,
                   verdict, sharedVars>>

SearchNext == SearchStep \/ SearchReturn

SpecSearch == SearchInit /\ [][SearchNext]_vars

(* The thread that runs the loop keeps running: a turn that can be taken   *)
(* is taken.                                                               *)
SpecSearchLive == SpecSearch /\ WF_vars(SearchNext)

(* Index i is the rightmost one with offsets[i] <= position.               *)
IsRightmostAtMost(scan_offsets, i, position) ==
    /\ i \in 0..(Len(scan_offsets) - 1)
    /\ scan_offsets[i + 1] <= position
    /\ \A k \in (i + 1)..(Len(scan_offsets) - 1) : scan_offsets[k + 1] > position

(* C18: for every non-decreasing offsets table with at least 2 entries     *)
(* (repeated offsets allowed) and every position below the final offset,   *)
(* the hand-written binary search (the loop of version4 and version5, and  *)
(* version3's function) returns the rightmost index i with                 *)
(* offsets[i] <= position, which is the scan find_scan_for_index returns.  *)
C18_HandWrittenFindsRightmost ==
    (/\ pc = "search_returned"
     /\ Len(scan_offsets_in) >= 2
     /\ index_in < Last(scan_offsets_in)) =>
        /\ IsRightmostAtMost(scan_offsets_in, scan_binary, index_in)
        /\ scan_binary = find_scan_for_index(index_in, scan_offsets_in)
        /\ find_scan_for_index_binary_v3(index_in, scan_offsets_in) = scan_binary

(* The search has returned a scan behind a run of repeated offsets, after  *)
(* more than one turn.                                                     *)
C18_Witness ==
    /\ pc = "search_returned"
    /\ index_in < Last(scan_offsets_in)
    /\ Len(reads) >= 2
    /\ scan_binary >= 2
    /\ scan_offsets_in[scan_binary + 1] = scan_offsets_in[scan_binary]

ReadsInRange ==
    \A k \in 1..Len(reads) : reads[k] \in 0..(Len(scan_offsets_in) - 1)

(* Every turn narrows right - left: turns taken plus the gap left never    *)
(* exceed the initial gap.                                                 *)
TurnsBounded ==
    /\ search_left <= search_right
    /\ Len(reads) + (search_right - search_left) <= Len(scan_offsets_in) - 1

(* C19: for every position, valid or out of range, and every non-empty     *)
(* offsets table, the loop of the hand-written binary search terminates,   *)
(* every index it reads through get_unchecked lies in [0, len - 1], and    *)
(* the value it returns lies in [0, len - 1].                              *)
C19_SearchTerminatesInBounds ==
    /\ [](ReadsInRange /\ TurnsBounded)
    /\ [](pc = "search_returned" => scan_binary \in 0..(Len(scan_offsets_in) - 1))
    /\ <>(pc = "search_returned")

(* The search has returned for a position beyond the final offset, after   *)
(* reading the table.                                                      *)
C19_Witness ==
    /\ pc = "search_returned"
    /\ index_in > Last(scan_offsets_in)
    /\ reads # <<>>
    /\ scan_binary = Len(scan_offsets_in) - 1

(***************************************************************************)
(* The two channel pipelines under fair scheduling: read_timstof_data of   *)
(* version2 and read_timstof_data_v5_fixed, each from its entry (the       *)
(* aggregator thread spawned, no task started) to its return.              *)
(***************************************************************************)
(* A frame whose task sends a message and a frame whose task sends none.   *)
PipelineShapes ==
    { Frame("MS1", TRUE, <<0, 0, 0, 0, 1>>, <<>>, 0),
      Frame("MS1", FALSE, <<0, 1>>, <<>>, 0) }

V5FixedInit ==
    /\ binary_search_impl \in BinarySearchImpls
    /\ HarnessIdle
    /\ LocIdle
    /\ QuantIdle
    /\ SharedIdle
    /\ frames \in [FrameIndices -> PipelineShapes]
    /\ pc = "v5_fixed"
    /\ splits = <<>>
    /\ worker = [idx \in FrameIndices |-> "todo"]
    /\ channel = <<>>
    /\ frame_buffer = [idx \in FrameIndices |-> <<>>]
    /\ next_frame = 0
    /\ aggregator = "running"
    /\ ms1_accumulator = <<>>
    /\ ms2_map = <<>>
    /\ data_original = <<>>
    /\ data_v5 = <<>>
    /\ verdict = <<>>

PipelineInit ==
    /\ binary_search_impl = "branchless"
    /\ \/ LockfreeInit /\ frames \in [FrameIndices -> PipelineShapes]
       \/ V5FixedInit

V5FixedNext ==
    \/ \E idx \in FrameIndices : V5FixedProcessFrame(idx)
    \/ \E idx \in FrameIndices : V5FixedSend(idx)
    \/ V5FixedAggregate
    \/ V5FixedDropSender
    \/ V5FixedAggregatorExit
    \/ V5FixedFinalize

PipelineNext == LockfreeNext \/ V5FixedNext

(* Every thread that can take a step takes one: the rayon pool runs a task *)
(* whenever one can run, and so do the aggregator thread and the calling   *)
(* thread.                                                                 *)
PipelineWorkerStep ==
    \E idx \in FrameIndices :
        \/ LockfreeProcessFrame(idx) \/ LockfreeSend(idx)
        \/ V5FixedProcessFrame(idx) \/ V5FixedSend(idx)

PipelineAggregatorStep ==
    \/ LockfreeAggregate \/ LockfreeAggregatorExit
    \/ V5FixedAggregate \/ V5FixedAggregatorExit

PipelineCallerStep ==
    \/ LockfreeDropSender \/ LockfreeFinalize
    \/ V5FixedDropSender \/ V5FixedFinalize

PipelineFairness ==
    /\ WF_vars(PipelineWorkerStep)
    /\ WF_vars(PipelineAggregatorStep)
    /\ WF_vars(PipelineCallerStep)

SpecPipelineLive == PipelineInit /\ [][PipelineNext]_vars /\ PipelineFairness

SenderDropped == pc \in {"lockfree_dropped", "dropped", "returned", "compare"}

BuildReturned == pc \in {"returned", "compare"}

BlockedOnFullChannel(idx) ==
    worker[idx] = "sending" /\ Len(channel) = ChannelCapacity

(* C20: in both channel pipelines, under fair scheduling, every worker     *)
(* eventually finishes (a producer blocked on a full channel is eventually *)
(* unblocked by the aggregator), the aggregator thread exits, and only     *)
(* after the last sender is dropped, and the build eventually returns.     *)
C20_PipelinesTerminate ==
    /\ (\E idx \in FrameIndices : BlockedOnFullChannel(idx))
           ~> (Len(channel) < ChannelCapacity)
    /\ [](aggregator = "exited" => SenderDropped)
    /\ <>(/\ \A idx \in FrameIndices : worker[idx] = "done"
          /\ aggregator = "exited"
          /\ BuildReturned)

(* A build has returned after its aggregator merged more tables than the   *)
(* channel holds.                                                          *)
C20_Witness ==
    /\ BuildReturned
    /\ aggregator = "exited"
    /\ Len(ms1_accumulator) > ChannelCapacity

(***************************************************************************)
(* The version2 pipeline with the aggregator's loop in two steps: recv()   *)
(* takes a message off the channel, then the match merges it.              *)
(***************************************************************************)
unitVars == <<merge_strategy, merge_pos, merge_last, merge_before,
              iso_mz, iso_width, processed, searchVars, batchVars>>

(* while let Ok(frame_data) = receiver.recv()                              *)
LockfreeRecv ==
    /\ aggregator = "running"
    /\ pc \in {"lockfree", "lockfree_dropped"}
    /\ received = <<>>
    /\ channel # <<>>
    /\ received' = <<Head(channel)>>
    /\ channel' = Tail(channel)
    /\ UNCHANGED <<binary_search_impl, unitVars, locVars, quantVars, sharedVars,
                   ms1_lock, columns, extend_pos, lock_count, chunkVars, uncheckedVars,
                   frames, pc, splits, worker, frame_buffer, next_frame,
                   aggregator, ms1_accumulator, ms2_map, data_original,
                   data_v5, verdict>>

(* match frame_data { MS1(data) => push, MS2(pairs) => merge every pair }; *)
(* frame_data is dropped at the end of the turn.                           *)
LockfreeMergeReceived ==
    /\ aggregator = "running"
    /\ received # <<>>
    /\ ms1_accumulator' = LockfreeMergeMs1(ms1_accumulator, received[1])
    /\ ms2_map' = LockfreeMergeMs2(ms2_map, received[1])
    /\ received' = <<>>
    /\ UNCHANGED <<binary_search_impl, unitVars, locVars, quantVars, sharedVars,
                   ms1_lock, columns, extend_pos, lock_count, chunkVars, uncheckedVars,
                   frames, pc, splits, worker, channel, frame_buffer,
                   next_frame, aggregator, data_original, data_v5, verdict>>

(* receiver.recv() returns Err: the queue is empty and every sender is     *)
(* dropped.                                                                *)
LockfreeRecvErr ==
    /\ aggregator = "running"
    /\ pc = "lockfree_dropped"
    /\ received = <<>>
    /\ channel = <<>>
    /\ aggregator' = "exited"
    /\ UNCHANGED <<binary_search_impl, harnessVars,
                   locVars, quantVars, sharedVars, frames,
                   pc, splits, worker, channel, frame_buffer, next_frame,
                   ms1_accumulator, ms2_map, data_original, data_v5, verdict>>

LockfreeQueueNext ==
    \/ \E idx \in FrameIndices : LockfreeProcessFrame(idx)
    \/ \E idx \in FrameIndices : LockfreeSend(idx)
    \/ LockfreeRecv
    \/ LockfreeMergeReceived
    \/ LockfreeDropSender
    \/ LockfreeRecvErr
    \/ LockfreeFinalize

SpecLockfreeQueue == LockfreeInit /\ [][LockfreeQueueNext]_vars

(* C21: the channel never holds more than CHANNEL_BUFFER_SIZE frame        *)
(* outputs; a worker at its send can proceed exactly when the channel is   *)
(* not full, whatever the other workers do; the aggregator holds at most   *)
(* one received output that is not yet merged.                             *)
C21_BoundedQueue ==
    /\ Len(channel) <= ChannelCapacity
    /\ \A idx \in FrameIndices :
           worker[idx] = "sending" =>
               ((ENABLED LockfreeSend(idx)) <=> Len(channel) < ChannelCapacity)
    /\ Len(received) <= 1

(* The channel is full, a worker waits at its send, and the aggregator     *)
(* holds a received output.                                                *)
C21_Witness ==
    /\ Len(channel) = ChannelCapacity
    /\ InFlight # {}
    /\ Len(received) = 1

(***************************************************************************)
(* The MS1 branch of read_timstof_data_v4 column by column: a task builds  *)
(* local_ms1, takes the write guard, extend_from extends the six columns   *)
(* one after the other, and the guard is dropped.  A column entry is kept  *)
(* as the peak it was computed from, <<frame, peak>>.                      *)
(***************************************************************************)
NColumns == 6

ColumnShapes ==
    { Frame("MS1", TRUE, <<0, 0>>, <<>>, 0),
      Frame("MS1", TRUE, <<0, 1>>, <<>>, 0),
      Frame("MS1", TRUE, <<0, 1, 2>>, <<>>, 0) }

(* Column c of local_ms1: one push per peak, in peak order.                *)
LocalColumn(idx, c) == [p \in 1..n_peaks(frames[idx]) |-> <<idx, p - 1>>]

ColumnsInit ==
    /\ binary_search_impl = "branchless"
    /\ LocIdle
    /\ QuantIdle
    /\ SharedIdle
    /\ MergeIdle
    /\ FrameIdle
    /\ SearchIdle
    /\ BatchIdle
    /\ received = <<>>
    /\ lock_count = <<>>
    /\ ChunkIdle
    /\ UncheckedIdle
    /\ frames \in [FrameIndices -> ColumnShapes]
    /\ pc = "columns"
    /\ worker = [idx \in FrameIndices |-> "todo"]
    /\ ms1_lock = {}
    /\ columns = [c \in 1..NColumns |-> <<>>]
    /\ extend_pos = [idx \in FrameIndices |-> 0]
    /\ splits = <<>>
    /\ channel = <<>>
    /\ frame_buffer = <<>>
    /\ next_frame = 0
    /\ aggregator = "idle"
    /\ ms1_accumulator = <<>>
    /\ ms2_map = <<>>
    /\ data_original = <<>>
    /\ data_v5 = <<>>
    /\ verdict = <<>>

ColumnsRunning == { idx \in DOMAIN worker : worker[idx] \in {"locking", "writing"} }

(* A write() that does not wait for the guard to be free.                  *)
ColumnsWriteUnguarded(idx) ==
    /\ pc = "columns"
    /\ worker[idx] = "locking"
    /\ ms1_lock' = ms1_lock \cup {idx}
    /\ worker' = [worker EXCEPT ![idx] = "writing"]
    /\ UNCHANGED <<binary_search_impl, unitVars, locVars, quantVars, sharedVars,
                   received, columns, extend_pos, lock_count, chunkVars, uncheckedVars,
                   frames, pc, splits, channel, frame_buffer, next_frame,
                   aggregator, ms1_accumulator, ms2_map, data_original,
                   data_v5, verdict>>

(* A pool thread takes frame idx and builds local_ms1.                     *)
ColumnsBuildLocal(idx) ==
    /\ pc = "columns"
    /\ worker[idx] = "todo"
    /\ Cardinality(ColumnsRunning) < NumThreads
    /\ worker' = [worker EXCEPT ![idx] = "locking"]
    /\ UNCHANGED <<binary_search_impl, unitVars, locVars, quantVars, sharedVars,
                   extraVars,
                   frames, pc, splits, channel, frame_buffer, next_frame,
                   aggregator, ms1_accumulator, ms2_map, data_original,
                   data_v5, verdict>>

(* let mut ms1 = ms1_lock.write(): granted when no guard is out.           *)
ColumnsWrite(idx) ==
    /\ pc = "columns"
    /\ worker[idx] = "locking"
    /\ ms1_lock = {}
    /\ ms1_lock' = {idx}
    /\ worker' = [worker EXCEPT ![idx] = "writing"]
    /\ UNCHANGED <<binary_search_impl, unitVars, locVars, quantVars, sharedVars,
                   received, columns, extend_pos, lock_count, chunkVars, uncheckedVars,
                   frames, pc, splits, channel, frame_buffer, next_frame,
                   aggregator, ms1_accumulator, ms2_map, data_original,
                   data_v5, verdict>>

(* One extend_from_slice of extend_from.                                   *)
ColumnsExtend(idx) ==
    /\ pc = "columns"
    /\ worker[idx] = "writing"
    /\ extend_pos[idx] < NColumns
    /\ columns' = [columns EXCEPT ![extend_pos[idx] + 1] =
                       @ \o LocalColumn(idx, extend_pos[idx] + 1)]
    /\ extend_pos' = [extend_pos EXCEPT ![idx] = @ + 1]
    /\ UNCHANGED <<binary_search_impl, unitVars, locVars, quantVars, sharedVars,
                   received, ms1_lock, lock_count, chunkVars, uncheckedVars,
                   frames, pc, splits, worker, channel, frame_buffer,
                   next_frame, aggregator, ms1_accumulator, ms2_map,
                   data_original, data_v5, verdict>>

(* extend_from has returned; the guard is dropped at the end of the arm.   *)
ColumnsUnlock(idx) ==
    /\ pc = "columns"
    /\ worker[idx] = "writing"
    /\ extend_pos[idx] = NColumns
    /\ ms1_lock' = ms1_lock \ {idx}
    /\ worker' = [worker EXCEPT ![idx] = "done"]
    /\ UNCHANGED <<binary_search_impl, unitVars, locVars, quantVars, sharedVars,
                   received, columns, extend_pos, lock_count, chunkVars, uncheckedVars,
                   frames, pc, splits, channel, frame_buffer, next_frame,
                   aggregator, ms1_accumulator, ms2_map, data_original,
                   data_v5, verdict>>

(* for_each_with has returned: the table is taken out of the RwLock.       *)
ColumnsReturn ==
    /\ pc = "columns"
    /\ \A idx \in FrameIndices : worker[idx] = "done"
    /\ pc' = "returned"
    /\ UNCHANGED <<binary_search_impl, harnessVars, locVars, quantVars,
                   sharedVars, frames, splits, worker, channel, frame_buffer,
                   next_frame, aggregator, ms1_accumulator, ms2_map,
                   data_original, data_v5, verdict>>

ColumnsNext ==
    \/ \E idx \in FrameIndices : ColumnsBuildLocal(idx)
    \/ \E idx \in FrameIndices : ColumnsWrite(idx)
    \/ \E idx \in FrameIndices : ColumnsExtend(idx)
    \/ \E idx \in FrameIndices : ColumnsUnlock(idx)
    \/ ColumnsReturn

SpecColumns == ColumnsInit /\ [][ColumnsNext]_vars

(* The rows of every frame are next to each other, in peak order.          *)
FrameRowsContiguous(column) ==
    \A r \in 1..Len(column) :
        \/ column[r][2] = 0 /\ \A q \in 1..(r - 1) : column[q][1] # column[r][1]
        \/ r > 1 /\ column[r - 1] = <<column[r][1], column[r][2] - 1>>

(* C22: whenever no worker holds the MS1 write lock, the six columns of    *)
(* the shared MS1 table have equal length, the six values at every row     *)
(* index come from the same peak of the same frame, and the rows of one    *)
(* frame's contribution are contiguous, never interleaved with another     *)
(* frame's rows.                                                           *)
C22_ColumnsCoIndexed ==
    (pc \in {"columns", "returned"} /\ ms1_lock = {}) =>
        /\ \A c \in 1..NColumns : Len(columns[c]) = Len(columns[1])
        /\ \A c \in 1..NColumns : columns[c] = columns[1]
        /\ FrameRowsContiguous(columns[1])

(* Two frames with peaks have been merged, the later frame first, while a  *)
(* third task waits for the lock that nobody holds.                        *)
C22_Witness ==
    /\ pc = "columns"
    /\ ms1_lock = {}
    /\ Len(columns[NColumns]) >= 3
    /\ columns[NColumns][1][1] > columns[NColumns][Len(columns[NColumns])][1]
    /\ \E idx \in FrameIndices : worker[idx] = "locking"

(***************************************************************************)
(* Peaks and windows of one MS2 frame.                                     *)
(***************************************************************************)
(* The windows of a frame's result whose table holds peak p.               *)
WindowsHolding(ms2, p) ==
    { w \in 1..Len(ms2) : \E r \in 1..Len(ms2[w][2]) : ms2[w][2][r][3] = p }

(* C23: within one MS2 frame each peak is appended to the table of at most *)
(* one isolation window, also when the scan ranges of windows overlap.     *)
C23_PeakInAtMostOneWindow ==
    processed # <<>> =>
        \A p \in 0..(n_peaks(frames[0]) - 1) :
            Cardinality(WindowsHolding(processed[1].ms2, p)) <= 1

(***************************************************************************)
(* read_timstof_data_v4 with its lock acquisitions counted per task: the   *)
(* write() of the RwLock around global_ms1 and the entry() calls on the    *)
(* DashMap, each of which locks the shard of its key.                      *)
(***************************************************************************)
LockShapes ==
    { Frame("MS1", TRUE, <<0, 1>>, <<>>, 0),
      Frame("MS2", TRUE, <<0, 1>>, <<Window(8, 16, 0, 0)>>, 1),
      Frame("MS2", TRUE, <<0, 1, 2>>,
            <<Window(8, 16, 0, 0), Window(24, 32, 1, 1)>>, 2) }

LocksInit ==
    /\ binary_search_impl \in BinarySearchImpls
    /\ LocIdle
    /\ QuantIdle
    /\ MergeIdle
    /\ FrameIdle
    /\ SearchIdle
    /\ BatchIdle
    /\ received = <<>>
    /\ ms1_lock = {}
    /\ columns = <<>>
    /\ extend_pos = <<>>
    /\ lock_count = [idx \in FrameIndices |-> 0]
    /\ ChunkIdle
    /\ UncheckedIdle
    /\ variant = "V4"
    /\ frames \in [FrameIndices -> LockShapes]
    /\ pc = "shared"
    /\ worker = [idx \in FrameIndices |-> "todo"]
    /\ win_pos = [idx \in FrameIndices |-> 0]
    /\ ms1_chunks = <<>>
    /\ global_ms1 = <<>>
    /\ ms2_map = <<>>
    /\ raw_data = <<>>
    /\ splits = <<>>
    /\ channel = <<>>
    /\ frame_buffer = <<>>
    /\ next_frame = 0
    /\ aggregator = "idle"
    /\ ms1_accumulator = <<>>
    /\ data_original = <<>>
    /\ data_v5 = <<>>
    /\ verdict = <<>>

(* MS1 frame: let mut ms1 = ms1_lock.write(); ms1.extend_from(&local_ms1). *)
LocksExtendMs1(idx) ==
    /\ pc = "shared"
    /\ worker[idx] = "running"
    /\ frames[idx].ms_level = "MS1"
    /\ global_ms1' = global_ms1 \o PeakRows(idx, frames[idx], "binary")
    /\ lock_count' = [lock_count EXCEPT ![idx] = @ + 1]
    /\ worker' = [worker EXCEPT ![idx] = "done"]
    /\ UNCHANGED <<binary_search_impl, unitVars, locVars, quantVars,
                   received, ms1_lock, columns, extend_pos, chunkVars, uncheckedVars,
                   variant, ms1_chunks, win_pos, raw_data, frames, pc, splits,
                   channel, frame_buffer, next_frame, aggregator,
                   ms1_accumulator, ms2_map, data_original, data_v5, verdict>>

(* MS2 frame, one turn of the window loop: ms2_map.entry(key) is called,   *)
(* and the shard locked, when the window's table is not empty.             *)
LocksEntry(idx) ==
    /\ pc = "shared"
    /\ worker[idx] = "running"
    /\ frames[idx].ms_level = "MS2"
    /\ win_pos[idx] < WindowsProcessed(frames[idx])
    /\ LET w   == win_pos[idx] + 1
           key == WindowKey(frames[idx].windows[w])
           td  == WindowTable(idx, w)
       IN  /\ ms2_map' = IF td # <<>>
                         THEN EntryAndModifyOrInsert(ms2_map, key, td)
                         ELSE ms2_map
           /\ lock_count' = IF td # <<>>
                            THEN [lock_count EXCEPT ![idx] = @ + 1]
                            ELSE lock_count
    /\ win_pos' = [win_pos EXCEPT ![idx] = @ + 1]
    /\ worker' = [worker EXCEPT ![idx] =
                     IF win_pos[idx] + 1 = WindowsProcessed(frames[idx])
                     THEN "done" ELSE "running"]
    /\ UNCHANGED <<binary_search_impl, unitVars, locVars, quantVars,
                   received, ms1_lock, columns, extend_pos, chunkVars, uncheckedVars,
                   variant, ms1_chunks, global_ms1, raw_data, frames, pc,
                   splits, channel, frame_buffer, next_frame, aggregator,
                   ms1_accumulator, data_original, data_v5, verdict>>

LocksNext ==
    \/ \E idx \in FrameIndices : SharedStartTask(idx)
    \/ \E idx \in FrameIndices : LocksExtendMs1(idx)
    \/ \E idx \in FrameIndices : LocksEntry(idx)
    \/ SharedFinalizeV4

SpecLocks == LocksInit /\ [][LocksNext]_vars

(* C24: for every frame the streaming accumulator appends the frame's      *)
(* whole contribution under a single lock acquisition: exactly one per MS1 *)
(* frame and exactly one per MS2 frame, however many windows the frame     *)
(* contributes to.                                                         *)
C24_OneAcquisitionPerFrame ==
    \A idx \in FrameIndices :
        (pc \in {"shared", "returned"} /\ worker[idx] = "done") =>
            lock_count[idx] = 1

(***************************************************************************)
(* The chunked readers of main.rs: read_timstof_data_v3 folds chunks of    *)
(* the frame indices, read_timstof_data_v5 chunks of the MS1 indices; the  *)
(* chunk closures share nothing and collect() keeps the chunk order.       *)
(***************************************************************************)
Max(a, b) == IF a >= b THEN a ELSE b

(* The three frames the frame source repeats.                              *)
ChunkShapes ==
    << Frame("MS1", TRUE, <<0, 1>>, <<>>, 0),
       Frame("MS2", TRUE, <<0, 1>>, <<Window(8, 16, 0, 0)>>, 1),
       Frame("MS1", TRUE, <<0, 0, 2>>, <<>>, 0) >>

(* (0..n_frames).collect::<Vec<_>>()                                       *)
AllIndices(n_frames) == [k \in 1..n_frames |-> k - 1]

(* The indices, in order, of the frames of the given level.                *)
LevelIndices(level) ==
    SelectSeq(AllIndices(Cardinality(DOMAIN frames)),
              LAMBDA idx : frames[idx].ms_level = level)

(* The slice the reader chunks: every index (V3), ms1_indices (V5).        *)
ChunkedIndices ==
    IF variant = "V3" THEN AllIndices(Cardinality(DOMAIN frames))
    ELSE LevelIndices("MS1")

(* std::cmp::max(1, n_frames / (PARALLEL_THREADS * 4)) in V3,              *)
(* std::cmp::max(1, ms1_indices.len() / PARALLEL_THREADS) in V5.           *)
ChunkSize ==
    IF variant = "V3"
    THEN Max(1, Len(ChunkedIndices) \div (PARALLEL_THREADS * 4))
    ELSE Max(1, Len(ChunkedIndices) \div PARALLEL_THREADS)

(* Chunks of exactly size elements: the remainder is left out.             *)
RECURSIVE par_chunks_exact(_, _)
par_chunks_exact(slice, size) ==
    IF Len(slice) < size THEN <<>>
    ELSE <<SubSeq(slice, 1, size)>>
             \o par_chunks_exact(SubSeq(slice, size + 1, Len(slice)), size)

(* slice.par_chunks(size): chunks of size elements, the last one shorter   *)
(* when the length is not a multiple of size; size is not 0.               *)
RECURSIVE par_chunks(_, _)
par_chunks(slice, size) ==
    IF slice = <<>> THEN <<>>
    ELSE <<SubSeq(slice, 1, Min(size, Len(slice)))>>
             \o par_chunks(SubSeq(slice, Min(size, Len(slice)) + 1, Len(slice)), size)

(* merge of a key -> table map into another, key by key.                   *)
RECURSIVE MergeMaps(_, _)
MergeMaps(map, other) ==
    IF DOMAIN other = {} THEN map
    ELSE LET key == CHOOSE k \in DOMAIN other : TRUE
         IN  MergeMaps(MergeEntry(map, key, other[key]),
                       [k \in DOMAIN other \ {key} |-> other[k]])

(* The closure of the chunk map from the k-th index of the chunk on: an    *)
(* MS1 frame extends the chunk's table, an MS2 frame (V3) fills the        *)
(* chunk's map through entry(key).or_insert_with(new).                     *)
RECURSIVE FoldChunk(_, _, _)
FoldChunk(chunk, k, acc) ==
    IF k > Len(chunk) THEN acc
    ELSE LET idx == chunk[k]
             frame == frames[idx]
         IN  FoldChunk(chunk, k + 1,
                 [ms1 |-> IF frame.ms_level = "MS1"
                          THEN acc.ms1 \o PeakRows(idx, frame, "binary")
                          ELSE acc.ms1,
                  ms2 |-> IF frame.ms_level = "MS2"
                          THEN MergePairs(acc.ms2, AllPairs(idx, frame, "binary"))
                          ELSE acc.ms2])

(* V5: ms2_indices.into_par_iter().for_each(..) into the DashMap, the      *)
(* frames taken in index order.                                            *)
RECURSIVE V5Ms2Map(_, _, _)
V5Ms2Map(indices, k, map) ==
    IF k > Len(indices) THEN map
    ELSE V5Ms2Map(indices, k + 1,
             MergePairs(map, NonEmptyPairs(indices[k], frames[indices[k]], "binary")))

(* for (chunk_ms1, chunk_ms2) in chunk_results { .. }                      *)
RECURSIVE ReduceChunks(_, _, _)
ReduceChunks(results, k, acc) ==
    IF k > Len(results) THEN acc
    ELSE ReduceChunks(results, k + 1,
             [ms1_data    |-> acc.ms1_data \o results[k].ms1,
              ms2_windows |-> MergeMaps(acc.ms2_windows, results[k].ms2)])

ChunkInit ==
    /\ binary_search_impl \in BinarySearchImpls
    /\ LocIdle
    /\ QuantIdle
    /\ MergeIdle
    /\ FrameIdle
    /\ SearchIdle
    /\ BatchIdle
    /\ received = <<>>
    /\ ms1_lock = {}
    /\ columns = <<>>
    /\ extend_pos = <<>>
    /\ lock_count = <<>>
    /\ ChunkIdle
    /\ UncheckedIdle
    /\ variant \in {"V3", "V5"}
    /\ \E n_frames \in 0..MaxChunkFrames, first \in 0..2 :
           frames = [idx \in 0..(n_frames - 1) |-> ChunkShapes[((idx + first) % 3) + 1]]
    /\ pc = "chunk_start"
    /\ worker = <<>>
    /\ win_pos = <<>>
    /\ ms1_chunks = <<>>
    /\ global_ms1 = <<>>
    /\ ms2_map = <<>>
    /\ raw_data = <<>>
    /\ splits = <<>>
    /\ channel = <<>>
    /\ frame_buffer = <<>>
    /\ next_frame = 0
    /\ aggregator = "idle"
    /\ ms1_accumulator = <<>>
    /\ data_original = <<>>
    /\ data_v5 = <<>>
    /\ verdict = <<>>

(* The chunk size is computed and par_chunks splits the slice; a chunk     *)
(* size of 0 makes par_chunks panic.                                       *)
ChunkStart ==
    /\ pc = "chunk_start"
    /\ chunk_size' = ChunkSize
    /\ IF ChunkSize = 0
       THEN pc' = "panicked" /\ chunk_list' = chunk_list
       ELSE pc' = "folding" /\ chunk_list' = par_chunks(ChunkedIndices, ChunkSize)
    /\ UNCHANGED <<binary_search_impl, unitVars, locVars, quantVars, sharedVars,
                   received, ms1_lock, columns, extend_pos, lock_count,
                   chunk_results, uncheckedVars,
                   frames, splits, worker, channel, frame_buffer, next_frame,
                   aggregator, ms1_accumulator, ms2_map, data_original,
                   data_v5, verdict>>

(* The closure of the map on the next chunk; its result is collected.      *)
ChunkFold ==
    /\ pc = "folding"
    /\ Len(chunk_results) < Len(chunk_list)
    /\ chunk_results' =
           Append(chunk_results,
                  FoldChunk(chunk_list[Len(chunk_results) + 1], 1,
                            [ms1 |-> <<>>, ms2 |-> <<>>]))
    /\ UNCHANGED <<binary_search_impl, unitVars, locVars, quantVars, sharedVars,
                   received, ms1_lock, columns, extend_pos, lock_count,
                   chunk_size, chunk_list, uncheckedVars,
                   frames, pc, splits, worker, channel, frame_buffer,
                   next_frame, aggregator, ms1_accumulator, ms2_map,
                   data_original, data_v5, verdict>>

(* V3: the merge loop over chunk_results, and the return.                  *)
ChunkReduceV3 ==
    /\ pc = "folding"
    /\ variant = "V3"
    /\ Len(chunk_results) = Len(chunk_list)
    /\ raw_data' = <<ReduceChunks(chunk_results, 1, EmptyData)>>
    /\ pc' = "returned"
    /\ UNCHANGED <<binary_search_impl, harnessVars, locVars, quantVars,
                   variant, win_pos, ms1_chunks, global_ms1,
                   frames, splits, worker, channel, frame_buffer, next_frame,
                   aggregator, ms1_accumulator, ms2_map, data_original,
                   data_v5, verdict>>

(* V5: the MS2 frames go into the DashMap, global_ms1 is extended by every *)
(* chunk in order, and the function returns.                               *)
ChunkReduceV5 ==
    /\ pc = "folding"
    /\ variant = "V5"
    /\ Len(chunk_results) = Len(chunk_list)
    /\ raw_data' = <<[ms1_data    |-> ReduceChunks(chunk_results, 1, EmptyData).ms1_data,
                      ms2_windows |-> V5Ms2Map(LevelIndices("MS2"), 1, <<>>)]>>
    /\ pc' = "returned"
    /\ UNCHANGED <<binary_search_impl, harnessVars, locVars, quantVars,
                   variant, win_pos, ms1_chunks, global_ms1,
                   frames, splits, worker, channel, frame_buffer, next_frame,
                   aggregator, ms1_accumulator, ms2_map, data_original,
                   data_v5, verdict>>

ChunkNext == ChunkStart \/ ChunkFold \/ ChunkReduceV3 \/ ChunkReduceV5

SpecChunks == ChunkInit /\ [][ChunkNext]_vars

(* How many chunks hold frame index idx.                                   *)
ChunksHolding(idx) ==
    Cardinality({ <<c, k>> \in (1..Len(chunk_list)) \X (1..MaxChunkFrames) :
                     k <= Len(chunk_list[c]) /\ chunk_list[c][k] = idx })

(* The sequential reference: the frames folded one by one in index order.  *)
ChunkReference ==
    FoldChunk(AllIndices(Cardinality(DOMAIN frames)), 1, [ms1 |-> <<>>, ms2 |-> <<>>])

(* C25: for every frame count from 0 on and the fixed thread count the     *)
(* chunk size is at least 1 and the chunks partition the chunked frame     *)
(* indices, every index being folded by exactly one chunk; the reduction   *)
(* holds every chunk's local MS1 table, and in V3 every chunk's local MS2  *)
(* map, exactly once.                                                      *)
C25_ChunksPartitionFrames ==
    pc \in {"folding", "returned", "panicked"} =>
        /\ pc # "panicked"
        /\ chunk_size >= 1
        /\ \A c \in 1..Len(chunk_list) :
               Len(chunk_list[c]) \in 1..chunk_size
        /\ \A k \in 1..Len(ChunkedIndices) : ChunksHolding(ChunkedIndices[k]) = 1
        /\ Concat(chunk_list) = ChunkedIndices
        /\ pc = "returned" =>
               /\ raw_data[1].ms1_data = ChunkReference.ms1
               /\ raw_data[1].ms1_data =
                      Concat([c \in 1..Len(chunk_results) |-> chunk_results[c].ms1])
               /\ variant = "V3" => raw_data[1].ms2_windows = ChunkReference.ms2

(* A reader has returned after folding chunks of several frames and a      *)
(* shorter last chunk, with MS1 rows and MS2 windows in the result.        *)
C25_Witness ==
    /\ pc = "returned"
    /\ chunk_size >= 2
    /\ Len(chunk_list) >= 2
    /\ Len(chunk_list[Len(chunk_list)]) < chunk_size
    /\ raw_data[1].ms1_data # <<>>
    /\ DOMAIN raw_data[1].ms2_windows # {}

(***************************************************************************)
(* The order in which the v5_fixed aggregator merges (checked under        *)
(* SpecCompare).                                                           *)
(***************************************************************************)
(* The frame indices of the rows of a table, in row order.                 *)
FrameOfRows(table) == [k \in 1..Len(table) |-> table[k][1]]

(* The frames whose output has reached ms1_accumulator or ms2_map.         *)
MergedFrames ==
    { ms1_accumulator[c][k][1] :
          <<c, k>> \in { ck \in (1..Len(ms1_accumulator)) \X (1..MaxProduct) :
                           ck[2] <= Len(ms1_accumulator[ck[1]]) } }
    \cup UNION { { ms2_map[key][k][1] : k \in 1..Len(ms2_map[key]) } :
                   key \in DOMAIN ms2_map }

NonDecreasing(seq) == \A k \in 1..(Len(seq) - 1) : seq[k] <= seq[k + 1]

(* The aggregator's state between two turns of its receive loop.           *)
MergedInOrder ==
    /\ next_frame \in 0..NFrames
    /\ \A i \in MergedFrames : i < next_frame
    /\ \A i \in FrameIndices :
           i < next_frame => \/ frame_buffer = <<>>
                             \/ frame_buffer[i] = <<>>
    /\ \A c \in 1..Len(ms1_accumulator) :
           /\ ms1_accumulator[c] # <<>>
           /\ \A k \in 1..Len(ms1_accumulator[c]) :
                  ms1_accumulator[c][k][1] = ms1_accumulator[c][1][1]
    /\ \A c \in 1..(Len(ms1_accumulator) - 1) :
           ms1_accumulator[c][1][1] < ms1_accumulator[c + 1][1][1]
    /\ \A key \in DOMAIN ms2_map : NonDecreasing(FrameOfRows(ms2_map[key]))

(* C26: the v5_fixed aggregator merges in strictly increasing frame index: *)
(* next_frame never decreases, the output of frame i is merged only when   *)
(* every index below i has been passed, and the chunks of ms1_accumulator  *)
(* are in ascending frame order in every reachable state.                  *)
C26_OrderedMerge ==
    /\ []MergedInOrder
    /\ [][next_frame' >= next_frame]_vars

(* Frame 0 has been merged while a later frame waits in the buffer for the *)
(* frame before it.                                                        *)
C26_Witness ==
    /\ pc = "v5_fixed"
    /\ next_frame >= 1
    /\ ms1_accumulator # <<>>
    /\ \E i \in FrameIndices : i > next_frame /\ frame_buffer[i] # <<>>

(***************************************************************************)
(* How the readers size their work: estimate_total_peaks and the chunk     *)
(* size of version1, the chunk size of main.rs V1 and V6.  Integer         *)
(* division by zero panics, and so does par_chunks(0).                     *)
(***************************************************************************)
(* a / b on usize, as an Option: nothing when the division panics.         *)
checked_div(a, b) == IF b = 0 THEN <<>> ELSE <<a \div b>>

RECURSIVE SampleSum(_)
SampleSum(sample_size) ==
    IF sample_size = 0 THEN 0
    ELSE n_peaks(frames[sample_size - 1]) + SampleSum(sample_size - 1)

(* version1: (sample_sum * frames.len()) / sample_size, where sample_size  *)
(* is min(100, frames.len()).                                              *)
estimate_total_peaks ==
    LET len == Cardinality(DOMAIN frames)
        sample_size == Min(100, len)
    IN  checked_div(SampleSum(sample_size) * len, sample_size)

(* (n_frames + parts - 1) / parts, parts being NUM_THREADS,                *)
(* PARALLEL_THREADS or numa_nodes.                                         *)
CeilChunkSize(n_frames, parts) == (n_frames + parts - 1) \div parts

(* The orders in which a parallel for_each over the splits can reach the   *)
(* DashMap.                                                                *)
SplitOrders ==
    LET len == Cardinality(DOMAIN frames)
    IN  { order \in [1..len -> 0..(len - 1)] :
              \A j, k \in 1..len : order[j] = order[k] => j = k }

(* V6: the closure of the chunk map on one chunk.                          *)
FoldChunkV6(chunk) ==
    [ms1 |-> FoldChunk(chunk, 1, [ms1 |-> <<>>, ms2 |-> <<>>]).ms1,
     ms2 |-> V5Ms2Map(SelectSeq(chunk, LAMBDA idx : frames[idx].ms_level = "MS2"),
                      1, <<>>)]

SizingInit ==
    /\ binary_search_impl \in BinarySearchImpls
    /\ LocIdle
    /\ QuantIdle
    /\ MergeIdle
    /\ FrameIdle
    /\ SearchIdle
    /\ BatchIdle
    /\ received = <<>>
    /\ ms1_lock = {}
    /\ columns = <<>>
    /\ extend_pos = <<>>
    /\ lock_count = <<>>
    /\ ChunkIdle
    /\ UncheckedIdle
    /\ variant \in {"version1", "V1", "V6"}
    /\ \E n_frames \in 0..MaxSizingFrames, first \in 0..2 :
           frames = [idx \in 0..(n_frames - 1) |-> ChunkShapes[((idx + first) % 3) + 1]]
    /\ pc = IF variant = "version1" THEN "estimate" ELSE "sizing"
    /\ worker = <<>>
    /\ win_pos = <<>>
    /\ ms1_chunks = <<>>
    /\ global_ms1 = <<>>
    /\ ms2_map = <<>>
    /\ raw_data = <<>>
    /\ splits = <<>>
    /\ channel = <<>>
    /\ frame_buffer = <<>>
    /\ next_frame = 0
    /\ aggregator = "idle"
    /\ ms1_accumulator = <<>>
    /\ data_original = <<>>
    /\ data_v5 = <<>>
    /\ verdict = <<>>

(* version1: let estimated_peaks = estimate_total_peaks(&frames); the      *)
(* estimate only sizes allocations.                                        *)
SizingEstimate ==
    /\ pc = "estimate"
    /\ pc' = IF estimate_total_peaks = <<>> THEN "panicked" ELSE "sizing"
    /\ UNCHANGED <<binary_search_impl, harnessVars, locVars, quantVars, sharedVars,
                   frames, splits, worker, channel, frame_buffer, next_frame,
                   aggregator, ms1_accumulator, ms2_map, data_original,
                   data_v5, verdict>>

(* let chunk_size = (n_frames + parts - 1) / parts; version1 and V1 hand   *)
(* it to with_min_len, which accepts 0; V6 hands it to par_chunks.         *)
SizingChunkSize ==
    /\ pc = "sizing"
    /\ \E parts \in IF variant = "V6" THEN 1..MaxNumaNodes ELSE {PARALLEL_THREADS} :
           LET n_frames == Cardinality(DOMAIN frames)
               size == CeilChunkSize(n_frames, parts)
           IN  /\ chunk_size' = size
               /\ IF variant = "V6" /\ size = 0
                  THEN pc' = "panicked" /\ chunk_list' = chunk_list
                  ELSE /\ pc' = "processing"
                       /\ chunk_list' = IF variant = "V6"
                                        THEN par_chunks(AllIndices(n_frames), size)
                                        ELSE chunk_list
    /\ UNCHANGED <<binary_search_impl, unitVars, locVars, quantVars, sharedVars,
                   received, ms1_lock, columns, extend_pos, lock_count,
                   chunk_results, uncheckedVars,
                   frames, splits, worker, channel, frame_buffer, next_frame,
                   aggregator, ms1_accumulator, ms2_map, data_original,
                   data_v5, verdict>>

(* version1 and V1: the map over the frames, the merge of the splits and   *)
(* the return.  version1 merges in a loop over the splits; V1 reduces the  *)
(* MS1 tables in order and fills the DashMap from a parallel for_each.     *)
SizingProcessSplits ==
    /\ pc = "processing"
    /\ variant \in {"version1", "V1"}
    /\ \E order \in SplitOrders :
           /\ variant = "version1" => order = AllIndices(Cardinality(DOMAIN frames))
           /\ raw_data' =
                  <<[ms1_data    |-> ChunkReference.ms1,
                     ms2_windows |-> FoldChunk(order, 1,
                                         [ms1 |-> <<>>, ms2 |-> <<>>]).ms2]>>
    /\ pc' = "returned"
    /\ UNCHANGED <<binary_search_impl, harnessVars, locVars, quantVars,
                   variant, win_pos, ms1_chunks, global_ms1,
                   frames, splits, worker, channel, frame_buffer, next_frame,
                   aggregator, ms1_accumulator, ms2_map, data_original,
                   data_v5, verdict>>

(* V6: the map over the chunks, the merge of the local tables in chunk     *)
(* order and of the local maps, and the return.                            *)
SizingProcessChunksV6 ==
    /\ pc = "processing"
    /\ variant = "V6"
    /\ chunk_results' = [c \in 1..Len(chunk_list) |-> FoldChunkV6(chunk_list[c])]
    /\ raw_data' = <<ReduceChunks(chunk_results', 1, EmptyData)>>
    /\ pc' = "returned"
    /\ UNCHANGED <<binary_search_impl, unitVars, locVars, quantVars,
                   received, ms1_lock, columns, extend_pos, lock_count,
                   chunk_size, chunk_list, uncheckedVars,
                   variant, win_pos, ms1_chunks, global_ms1,
                   frames, splits, worker, channel, frame_buffer, next_frame,
                   aggregator, ms1_accumulator, ms2_map, data_original,
                   data_v5, verdict>>

SizingNext ==
    \/ SizingEstimate
    \/ SizingChunkSize
    \/ SizingProcessSplits
    \/ SizingProcessChunksV6

SpecSizing == SizingInit /\ [][SizingNext]_vars

(* C27: on a frame source with zero frames a reader returns Ok with an     *)
(* empty MS1 table and no MS2 window, and does not fail on a zero chunk    *)
(* size or a division by zero while sizing its work.                       *)
C27_EmptyDatasetReturnsOk ==
    DOMAIN frames = {} =>
        /\ pc # "panicked"
        /\ pc = "returned" =>
               /\ raw_data[1].ms1_data = <<>>
               /\ DOMAIN raw_data[1].ms2_windows = {}

(***************************************************************************)
(* The MS1 branch of read_timstof_data_v1 (main.rs) on one frame, column   *)
(* by column.  The frame has Last(scan_offsets) TOF indices and            *)
(* n_intensities intensities.  The columns are, in the order of the        *)
(* struct: rt_values_min, mobility_values, mz_values, intensity_values,    *)
(* frame_indices, scan_indices.                                            *)
(***************************************************************************)
TableV1Frames ==
    { [ms_level |-> "MS1", readable |-> TRUE, scan_offsets |-> offsets,
       windows |-> <<>>, n_width |-> 0, n_intensities |-> n]
      : offsets \in OffsetsTables, n \in 0..MaxIntensities }

(* Vec::resize(new_len, value) on a column.                                *)
resize(column, new_len, value) ==
    [k \in 1..new_len |-> IF k <= Len(column) THEN column[k] ELSE value]

(* The length of tof_indices.iter().zip(intensities.iter()).               *)
ZipLen(frame) == Min(n_peaks(frame), frame.n_intensities)

TableV1Init ==
    /\ binary_search_impl \in BinarySearchImpls
    /\ LocIdle
    /\ QuantIdle
    /\ SharedIdle
    /\ MergeIdle
    /\ FrameIdle
    /\ SearchIdle
    /\ BatchIdle
    /\ received = <<>>
    /\ ms1_lock = {}
    /\ extend_pos = <<>>
    /\ lock_count = <<>>
    /\ ChunkIdle
    /\ UncheckedIdle
    /\ frames \in [{0} -> TableV1Frames]
    /\ pc = "table_v1"
    /\ columns = [c \in 1..NColumns |-> <<>>]
    /\ worker = <<>>
    /\ splits = <<>>
    /\ channel = <<>>
    /\ frame_buffer = <<>>
    /\ next_frame = 0
    /\ aggregator = "idle"
    /\ ms1_accumulator = <<>>
    /\ ms2_map = <<>>
    /\ data_original = <<>>
    /\ data_v5 = <<>>
    /\ verdict = <<>>

(* ms1.rt_values_min.resize(n_peaks, rt_min);                              *)
(* ms1.frame_indices.resize(n_peaks, frame.index as u32);                  *)
TableV1Resize ==
    /\ pc = "table_v1"
    /\ columns' = [columns EXCEPT
                      ![1] = resize(columns[1], n_peaks(frames[0]), 0),
                      ![5] = resize(columns[5], n_peaks(frames[0]), 0)]
    /\ pc' = "zipping"
    /\ UNCHANGED <<binary_search_impl, unitVars, locVars, quantVars, sharedVars,
                   received, ms1_lock, extend_pos, lock_count, chunkVars, uncheckedVars,
                   frames, splits, worker, channel, frame_buffer, next_frame,
                   aggregator, ms1_accumulator, ms2_map, data_original,
                   data_v5, verdict>>

(* One turn of the loop over the zipped peaks: mobility, m/z, intensity    *)
(* and scan are pushed.                                                    *)
TableV1Push ==
    /\ pc = "zipping"
    /\ peak_i < ZipLen(frames[0])
    /\ LET scan == find_scan_for_index_binary(binary_search_impl, peak_i,
                                              frames[0].scan_offsets)
       IN  columns' = [columns EXCEPT
                          ![2] = Append(columns[2], scan),
                          ![3] = Append(columns[3], peak_i),
                          ![4] = Append(columns[4], 10 * (peak_i + 1)),
                          ![6] = Append(columns[6], scan)]
    /\ peak_i' = peak_i + 1
    /\ UNCHANGED <<binary_search_impl, mergeVars, iso_mz, iso_width, processed,
                   searchVars, ms1_table, locVars, quantVars, sharedVars,
                   received, ms1_lock, extend_pos, lock_count, chunkVars, uncheckedVars,
                   frames, pc, splits, worker, channel, frame_buffer, next_frame,
                   aggregator, ms1_accumulator, ms2_map, data_original,
                   data_v5, verdict>>

(* The zip is exhausted: the branch ends with the frame's table in ms1.    *)
TableV1Done ==
    /\ pc = "zipping"
    /\ peak_i = ZipLen(frames[0])
    /\ pc' = "returned"
    /\ UNCHANGED <<binary_search_impl, harnessVars, locVars, quantVars, sharedVars,
                   frames, splits, worker, channel, frame_buffer, next_frame,
                   aggregator, ms1_accumulator, ms2_map, data_original,
                   data_v5, verdict>>

TableV1Next == TableV1Resize \/ TableV1Push \/ TableV1Done

SpecTableV1 == TableV1Init /\ [][TableV1Next]_vars

(* C28: the table read_timstof_data_v1 builds for an MS1 frame has six     *)
(* columns of the same length, also when the frame's intensity array and   *)
(* its TOF array differ in length.                                         *)
C28_SixColumnsSameLength ==
    pc = "returned" =>
        \A c \in 1..NColumns : Len(columns[c]) = Len(columns[1])

(***************************************************************************)
(* version4's FrameProcessor::process_peaks_unchecked on one frame: the    *)
(* six columns are given their full length before anything is written,     *)
(* rows are written through raw pointers at out_idx, and the lengths are   *)
(* cut back at the end.                                                    *)
(***************************************************************************)
(* What a slot holds that was never written; every written value is >= 0.  *)
Uninit == -1

(* scan_filter: None, or Some((start, end)).                               *)
ScanFilters ==
    {<<>>} \cup { <<[start |-> a, end |-> b]>> : a, b \in 0..(MaxScans - 1) }

(* What the loop stores in column c for peak i located in scan.            *)
ColumnValue(c, i, scan) ==
    CASE c = 1 -> 0
      [] c = 2 -> scan
      [] c = 3 -> i
      [] c = 4 -> 10 * (i + 1)
      [] c = 5 -> 0
      [] c = 6 -> scan

(* if let Some((start, end)) = scan_filter                                 *)
(*     { if scan < start || scan > end { continue; } }                     *)
PassesFilter(filter, scan) ==
    filter = <<>> \/ ~(scan < filter[1].start \/ scan > filter[1].end)

UncheckedInit ==
    /\ binary_search_impl = "branchless"
    /\ LocIdle
    /\ QuantIdle
    /\ SharedIdle
    /\ MergeIdle
    /\ FrameIdle
    /\ SearchIdle
    /\ BatchIdle
    /\ received = <<>>
    /\ ms1_lock = {}
    /\ extend_pos = <<>>
    /\ lock_count = <<>>
    /\ ChunkIdle
    /\ frames \in [{0} -> TableV1Frames]
    /\ scan_filter \in ScanFilters
    /\ out_idx = 0
    /\ pc = "unchecked"
    /\ columns = [c \in 1..NColumns |-> <<>>]
    /\ worker = <<>>
    /\ splits = <<>>
    /\ channel = <<>>
    /\ frame_buffer = <<>>
    /\ next_frame = 0
    /\ aggregator = "idle"
    /\ ms1_accumulator = <<>>
    /\ ms2_map = <<>>
    /\ data_original = <<>>
    /\ data_v5 = <<>>
    /\ verdict = <<>>

(* TimsTOFData::with_capacity(n_peaks) and the six set_len(n_peaks).       *)
UncheckedSetLen ==
    /\ pc = "unchecked"
    /\ columns' = [c \in 1..NColumns |->
                      [k \in 1..n_peaks(frames[0]) |-> Uninit]]
    /\ pc' = "writing"
    /\ UNCHANGED <<binary_search_impl, unitVars, locVars, quantVars, sharedVars,
                   received, ms1_lock, extend_pos, lock_count, chunkVars,
                   uncheckedVars,
                   frames, splits, worker, channel, frame_buffer, next_frame,
                   aggregator, ms1_accumulator, ms2_map, data_original,
                   data_v5, verdict>>

(* One turn of the loop over the zipped peaks: the peak is skipped by the  *)
(* filter, or its row is written at out_idx.                               *)
UncheckedStep ==
    /\ pc = "writing"
    /\ peak_i < ZipLen(frames[0])
    /\ LET scan == find_scan_for_index_binary_v3(peak_i, frames[0].scan_offsets)
       IN  IF PassesFilter(scan_filter, scan)
           THEN /\ columns' = [c \in 1..NColumns |->
                                  [columns[c] EXCEPT
                                      ![out_idx + 1] = ColumnValue(c, peak_i, scan)]]
                /\ out_idx' = out_idx + 1
           ELSE UNCHANGED <<columns, out_idx>>
    /\ peak_i' = peak_i + 1
    /\ UNCHANGED <<binary_search_impl, mergeVars, iso_mz, iso_width, processed,
                   searchVars, ms1_table, locVars, quantVars, sharedVars,
                   received, ms1_lock, extend_pos, lock_count, chunkVars,
                   scan_filter,
                   frames, pc, splits, worker, channel, frame_buffer, next_frame,
                   aggregator, ms1_accumulator, ms2_map, data_original,
                   data_v5, verdict>>

(* The function returns the columns at their full length.                  *)
UncheckedReturnFull ==
    /\ pc = "writing"
    /\ peak_i = ZipLen(frames[0])
    /\ pc' = "returned"
    /\ UNCHANGED <<binary_search_impl, harnessVars, locVars, quantVars, sharedVars,
                   frames, splits, worker, channel, frame_buffer, next_frame,
                   aggregator, ms1_accumulator, ms2_map, data_original,
                   data_v5, verdict>>

(* if out_idx < n_peaks { the six set_len(out_idx) }; data is returned.    *)
UncheckedTruncate ==
    /\ pc = "writing"
    /\ peak_i = ZipLen(frames[0])
    /\ columns' = IF out_idx < n_peaks(frames[0])
                  THEN [c \in 1..NColumns |-> SubSeq(columns[c], 1, out_idx)]
                  ELSE columns
    /\ pc' = "returned"
    /\ UNCHANGED <<binary_search_impl, unitVars, locVars, quantVars, sharedVars,
                   received, ms1_lock, extend_pos, lock_count, chunkVars,
                   uncheckedVars,
                   frames, splits, worker, channel, frame_buffer, next_frame,
                   aggregator, ms1_accumulator, ms2_map, data_original,
                   data_v5, verdict>>

UncheckedNext == UncheckedSetLen \/ UncheckedStep \/ UncheckedTruncate

SpecUnchecked == UncheckedInit /\ [][UncheckedNext]_vars

(* The push-based reference: the zipped peaks in order, each located by    *)
(* find_scan_for_index and pushed on the six columns when it passes the    *)
(* filter.                                                                 *)
PushReference(frame, filter) ==
    LET located == [p \in 1..ZipLen(frame) |->
                       <<p - 1, find_scan_for_index(p - 1, frame.scan_offsets)>>]
        passed  == SelectSeq(located, LAMBDA row : PassesFilter(filter, row[2]))
    IN  [c \in 1..NColumns |->
            [k \in 1..Len(passed) |-> ColumnValue(c, passed[k][1], passed[k][2])]]

(* C29: process_peaks_unchecked returns six columns whose length is the    *)
(* number of peaks that passed the filter, every returned slot was         *)
(* written, and the rows are those of the push-based reference in the same *)
(* order; while it runs, out_idx stays inside the pre-sized columns.       *)
C29_UncheckedEqualsPushReference ==
    /\ pc = "writing" =>
           /\ out_idx <= peak_i
           /\ peak_i <= n_peaks(frames[0])
           /\ \A c \in 1..NColumns : Len(columns[c]) = n_peaks(frames[0])
    /\ pc = "returned" =>
           /\ \A c \in 1..NColumns :
                  /\ Len(columns[c]) = out_idx
                  /\ \A k \in 1..Len(columns[c]) : columns[c][k] # Uninit
           /\ columns = PushReference(frames[0], scan_filter)

(* A call has returned after its filter let one peak through and held      *)
(* another back.                                                           *)
C29_Witness ==
    /\ pc = "returned"
    /\ scan_filter # <<>>
    /\ out_idx >= 1
    /\ out_idx < n_peaks(frames[0])
    /\ frames[0].n_intensities >= n_peaks(frames[0])

(***************************************************************************)
(* The pre-count of a window's rows in read_timstof_data_v1 (main.rs)      *)
(* against the rows its peak loop appends, for one MS2 frame with one      *)
(* window.                                                                 *)
(***************************************************************************)
RECURSIVE SumSeq(_)
SumSeq(seq) == IF seq = <<>> THEN 0 ELSE Head(seq) + SumSeq(Tail(seq))

(* frame.scan_offsets.windows(2).enumerate()                               *)
(*     .filter(|(scan, _)| *scan >= scan_starts[win] && *scan <= scan_ends[win]) *)
(*     .map(|(_, w)| w[1] - w[0]).sum()                                    *)
peak_count(frame, win) ==
    LET offsets == frame.scan_offsets
    IN  SumSeq([k \in 1..(Len(offsets) - 1) |->
                   IF (k - 1) >= win.scan_start /\ (k - 1) <= win.scan_end
                   THEN offsets[k + 1] - offsets[k]
                   ELSE 0])

PreCountFrames ==
    { Frame("MS2", TRUE, offsets, <<Window(8, 16, a, b)>>, 1)
      : offsets \in OffsetsTables, a \in 0..(MaxScans - 1), b \in 0..(MaxScans - 1) }

PreCountInit ==
    /\ binary_search_impl \in BinarySearchImpls
    /\ LocIdle
    /\ QuantIdle
    /\ SharedIdle
    /\ MergeIdle
    /\ SearchIdle
    /\ BatchIdle
    /\ ExtraIdle
    /\ iso_mz = 0
    /\ iso_width = 0
    /\ processed = <<>>
    /\ frames \in [{0} -> PreCountFrames]
    /\ pc = "window"
    /\ worker = <<>>
    /\ splits = <<>>
    /\ channel = <<>>
    /\ frame_buffer = <<>>
    /\ next_frame = 0
    /\ aggregator = "idle"
    /\ ms1_accumulator = <<>>
    /\ ms2_map = <<>>
    /\ data_original = <<>>
    /\ data_v5 = <<>>
    /\ verdict = <<>>

(* let peak_count = ..; let mut td = TimsTOFData::with_capacity(peak_count) *)
PreCountCount ==
    /\ pc = "window"
    /\ processed' = <<[capacity |-> peak_count(frames[0], frames[0].windows[1]),
                       td |-> <<>>]>>
    /\ pc' = "pushing"
    /\ UNCHANGED <<binary_search_impl, mergeVars, iso_mz, iso_width,
                   searchVars, batchVars, extraVars, locVars, quantVars, sharedVars,
                   frames, splits, worker, channel, frame_buffer, next_frame,
                   aggregator, ms1_accumulator, ms2_map, data_original,
                   data_v5, verdict>>

(* One turn of the loop over the peaks: the peak is located by             *)
(* find_scan_for_index_binary and appended when its scan is in the range.  *)
PreCountPeak ==
    /\ pc = "pushing"
    /\ peak_i < n_peaks(frames[0])
    /\ LET row == <<0, find_scan_for_index_binary(binary_search_impl, peak_i,
                                                  frames[0].scan_offsets), peak_i>>
       IN  processed' = <<[processed[1] EXCEPT
                              !.td = IF InScanRange(row, frames[0].windows[1])
                                     THEN Append(@, row) ELSE @]>>
    /\ peak_i' = peak_i + 1
    /\ UNCHANGED <<binary_search_impl, mergeVars, iso_mz, iso_width,
                   searchVars, ms1_table, extraVars, locVars, quantVars, sharedVars,
                   frames, pc, splits, worker, channel, frame_buffer, next_frame,
                   aggregator, ms1_accumulator, ms2_map, data_original,
                   data_v5, verdict>>

(* ms2_pairs.push((key, td))                                               *)
PreCountPush ==
    /\ pc = "pushing"
    /\ peak_i = n_peaks(frames[0])
    /\ pc' = "returned"
    /\ UNCHANGED <<binary_search_impl, harnessVars, locVars, quantVars, sharedVars,
                   frames, splits, worker, channel, frame_buffer, next_frame,
                   aggregator, ms1_accumulator, ms2_map, data_original,
                   data_v5, verdict>>

PreCountNext == PreCountCount \/ PreCountPeak \/ PreCountPush

SpecPreCount == PreCountInit /\ [][PreCountNext]_vars

(* C30: in read_timstof_data_v1, for every MS2 frame and window, the       *)
(* pre-count peak_count taken from the offset table equals the number of   *)
(* rows the per-peak test with find_scan_for_index_binary appends to the   *)
(* window's table, both ends of the scan range being inclusive.            *)
C30_PreCountEqualsRows ==
    pc = "returned" => processed[1].capacity = Len(processed[1].td)

=============================================================================
